---- MODULE Spec2Model ----
(***************************************************************************)
(* A model of claripy's Z3 backend (claripy/backends/backend_z3.py).       *)
(*                                                                         *)
(* The module holds four sub-models that share one list of variables:      *)
(*   SpecSolve  the solving protocols on one incremental solver session    *)
(*              (z3_solver_sat, _satisfiable, _batch_eval, _extrema);      *)
(*   SpecCache  the per-thread AST cache and the native references it pins *)
(*              (_abstract_internal, add, simplify, downsize);             *)
(*   SpecTrans  lowering and abstraction of expression nodes               *)
(*              (_op_raw / _op_expr tables, op_map, _abstract_internal);   *)
(*   SpecPool   solver(), the per-thread session slot and native contexts. *)
(* The native engine is a black box: a check answers sat exactly when the  *)
(* asserted constraints and the assumptions have a common model, it picks  *)
(* any such model, and it may answer unknown with any reason.              *)
(***************************************************************************)
EXTENDS Integers, Sequences, FiniteSets, TLC

VARIABLES
    \* ---- solving (one session on one thread)
    sess,          \* the problem the session is about: bit-width and symbols
    solver,        \* z3.Solver: the stack of assertion frames (depth = Len - 1)
    solve_count,   \* BackendZ3.solve_count
    pc,            \* position of the running operation
    call,          \* arguments and locals of the running operation
    entry,         \* history: the session's frames when the operation was called
    nchecks,       \* history: native check calls made by the running operation
    total_checks,  \* history: native check calls made since construction
    last_check,    \* history: result and reason of the last native check
    raised,        \* the exception the operation ended with, or "none"
    retval,        \* the value the operation returned
    ncalls,        \* operations called so far
    \* ---- AST cache of one thread
    ast_cache,     \* _tls.ast_cache: entries, least recently used first
    inc_refs,      \* Z3_inc_ref calls made for the cache, per native term
    dec_refs,      \* Z3_dec_ref calls made for the cache, per native term
    var_cache,     \* _tls.var_cache
    sym_cache,     \* _tls.sym_cache
    cache_op,      \* the last cache operation and how it ended
    cache_nops,    \* cache operations made so far
    \* ---- lowering and abstraction of one expression node
    tr_node,       \* the IR node handed to convert
    tr_native,     \* the native term convert returned
    tr_back,       \* the IR node abstract returned
    tr_pc,         \* "node", "lowered", "abstracted"
    tr_same,       \* whether abstract ran on the thread that lowered the node
    extra_bvs_data, \* _tls.extra_bvs_data of the lowering thread
    \* ---- the per-thread session pool
    reuse_z3_solver, \* self.reuse_z3_solver
    tls_solver,      \* _tls.solver of each thread (0: none)
    sessions,        \* every session built so far, by identity
    held,            \* the sessions each thread got from solver()
    pooled,          \* the sessions ever stored in each thread's _tls.solver
    last_solver,     \* the latest solver() call
    \* ---- native contexts, their registry and the interrupt handler
    old_handler,      \* the handler found installed when the module was imported
    sig_installed,    \* whether handle_sigint was installed
    tls_context,      \* _tls.context of each thread ("none": not created)
    ctx_pc,           \* each thread's position in the _context property
    ALL_Z3_CONTEXTS,  \* the registry of native contexts
    sig_pc,           \* position of handle_sigint: "idle", "listing", "broadcast", "done"
    sig_entry,        \* the registry when the running handler was entered
    sig_todo,         \* contexts of the handler's list not yet interrupted
    sig_interrupted,  \* contexts the running handler has interrupted
    sig_outcome,      \* how the handler ended
    n_signals,        \* interrupts delivered so far
    \* ---- per-thread caches and side-tables
    tls_ast_cache,      \* _tls.ast_cache of each thread ("none": not created)
    tls_extra_bvs_data, \* _tls.extra_bvs_data of each thread ("none": not created)
    writers,            \* the threads that have mutated each cache or side-table
    \* ---- threads calling _satisfiable on one backend
    shared_solve_count, \* BackendZ3.solve_count, an attribute of the backend
    rc_pc,              \* each thread's position in _satisfiable
    rc_loaded,          \* the value each thread read for solve_count += 1
    rc_calls,           \* _satisfiable calls each thread has finished
    rc_checks,          \* native checks made by all threads
    \* ---- an exception of the native library on its way to the caller
    wr_op,      \* the backend operation called
    wr_native,  \* what the native call inside it did
    wr_frames,  \* the frames between the native call and the caller, innermost last
    wr_exc,     \* the exception in flight ("none": a normal return)
    wr_pc,      \* "idle", "unwinding", "done"
    wr_calls,   \* operations called so far
    \* ---- _extrema on 32-bit symbols (numbers as pairs of 16-bit halves)
    wd_positive, \* whether the session holds x > 0 besides x + y == 10
    wd_is_max,   \* is_max of the call
    wd_lo,       \* lo
    wd_hi,       \* hi
    wd_pc,       \* "loop", "returned"
    wd_checks,   \* native checks made by the call
    wd_ret,      \* the value returned
    \* ---- _abstract_to_primitive on a Concat of word literals
    dec_words,   \* the operands of the Concat, most significant first
    dec_pc,      \* "term", "decoded", "raised"
    dec_res,     \* the integer returned
    dec_raised,  \* the error raised, "none" if none
    \* ---- downsize() among threads that convert and abstract
    dz_object_cache,   \* each thread's cache of lowered nodes
    dz_ast_cache,      \* each thread's _ast_cache, by the hashes it holds
    dz_var_cache,      \* each thread's _var_cache
    dz_sym_cache,      \* each thread's _sym_cache
    dz_extra_bvs_data, \* each thread's symbol metadata side-table
    dz_last            \* the operation made last, its thread, and how many were made

solveVars == <<sess, solver, solve_count, pc, call, entry, nchecks, total_checks,
               last_check, raised, retval, ncalls>>

cacheVars == <<ast_cache, inc_refs, dec_refs, var_cache, sym_cache, cache_op, cache_nops>>

transVars == <<tr_node, tr_native, tr_back, tr_pc, tr_same, extra_bvs_data>>

poolVars == <<reuse_z3_solver, tls_solver, sessions, held, pooled, last_solver>>

sigVars == <<old_handler, sig_installed, tls_context, ctx_pc, ALL_Z3_CONTEXTS, sig_pc, sig_entry, sig_todo, sig_interrupted, sig_outcome, n_signals>>

tlsVars == <<tls_ast_cache, tls_extra_bvs_data, writers>>

raceVars == <<shared_solve_count, rc_pc, rc_loaded, rc_calls, rc_checks>>

wrapVars == <<wr_op, wr_native, wr_frames, wr_exc, wr_pc, wr_calls>>

wideVars == <<wd_positive, wd_is_max, wd_lo, wd_hi, wd_pc, wd_checks, wd_ret>>

decVars == <<dec_words, dec_pc, dec_res, dec_raised>>

dzVars == <<dz_object_cache, dz_ast_cache, dz_var_cache, dz_sym_cache, dz_extra_bvs_data, dz_last>>

vars == <<solveVars, cacheVars, transVars, poolVars, sigVars, tlsVars, raceVars, wrapVars, wideVars, decVars, dzVars>>

nonSolveVars == <<cacheVars, transVars, poolVars, sigVars, tlsVars, raceVars, wrapVars, wideVars, decVars, dzVars>>
nonCacheVars == <<solveVars, transVars, poolVars, sigVars, tlsVars, raceVars, wrapVars, wideVars, decVars, dzVars>>
nonTransVars == <<solveVars, cacheVars, poolVars, sigVars, tlsVars, raceVars, wrapVars, wideVars, decVars, dzVars>>
nonPoolVars == <<solveVars, cacheVars, transVars, sigVars, tlsVars, raceVars, wrapVars, wideVars, decVars, dzVars>>
nonSigVars == <<solveVars, cacheVars, transVars, poolVars, tlsVars, raceVars, wrapVars, wideVars, decVars, dzVars>>
nonTlsVars == <<solveVars, cacheVars, transVars, poolVars, sigVars, raceVars, wrapVars, wideVars, decVars, dzVars>>
nonRaceVars == <<solveVars, cacheVars, transVars, poolVars, sigVars, tlsVars, wrapVars, wideVars, decVars, dzVars>>
nonWrapVars == <<solveVars, cacheVars, transVars, poolVars, sigVars, tlsVars, raceVars, wideVars, decVars, dzVars>>
nonWideVars == <<solveVars, cacheVars, transVars, poolVars, sigVars, tlsVars, raceVars, wrapVars, decVars, dzVars>>
nonDecVars == <<solveVars, cacheVars, transVars, poolVars, sigVars, tlsVars, raceVars, wrapVars, wideVars, dzVars>>
nonDzVars == <<solveVars, cacheVars, transVars, poolVars, sigVars, tlsVars, raceVars, wrapVars, wideVars, decVars>>

----------------------------------------------------------------------------
(* Bounds of the exploration *)

\* largest n handed to _batch_eval
MaxN == 3
\* operations called on one session in one behaviour
MaxCalls == 2
\* ast_cache_size handed to BackendZ3.__init__
AstCacheSize == 2
\* cache operations made on one thread in one behaviour
MaxCacheOps == 4
\* solver() calls explored
MaxSolverCalls == 3
\* interrupt signals explored
MaxSignals == 2
\* _satisfiable calls explored per thread when threads run concurrently
MaxRaceCalls == 2
\* operations explored for how an exception of the native library leaves them
MaxWrapCalls == 2

----------------------------------------------------------------------------
(* Arithmetic helpers *)

RECURSIVE Pow2(_)
Pow2(n) == IF n = 0 THEN 1 ELSE 2 * Pow2(n - 1)

Min(a, b) == IF a <= b THEN a ELSE b

\* the value of a Python int coerced to a bitvector of width w
ToUnsigned(v, w) == v % Pow2(w)

\* a bitvector's value read as two's complement
ToSigned(v, w) == IF v >= Pow2(w - 1) THEN v - Pow2(w) ELSE v

SetMax(S) == CHOOSE m \in S : \A v \in S : v <= m
SetMin(S) == CHOOSE m \in S : \A v \in S : m <= v

Range(s) == {s[i] : i \in DOMAIN s}

----------------------------------------------------------------------------
(* The native engine's terms, as far as the solving protocols build them *)

\* assignments of the session's symbols
Universe == [sess.vars -> 0 .. (Pow2(sess.w) - 1)]

\* value of a bitvector expression under an assignment
Eval(e, a) ==
    CASE e = "x" -> a["x"]
      [] e = "y" -> a["y"]
      [] e = "x+y" -> (a["x"] + a["y"]) % Pow2(sess.w)

\* Constraints are records [k, e, v]: a kind, a tuple of expressions, a tuple
\* of Python integers.
Cons(k, e, v) == [k |-> k, e |-> e, v |-> v]

Holds(c, a) ==
    CASE c.k = "ULT" -> Eval(c.e[1], a) < ToUnsigned(c.v[1], sess.w)
      [] c.k = "UGT" -> Eval(c.e[1], a) > ToUnsigned(c.v[1], sess.w)
      [] c.k = "EQ" -> Eval(c.e[1], a) = ToUnsigned(c.v[1], sess.w)
      [] c.k = "NE" -> Eval(c.e[1], a) # ToUnsigned(c.v[1], sess.w)
      [] c.k = "NOT_AND_EQ" ->
            ~(\A j \in DOMAIN c.e : Eval(c.e[j], a) = ToUnsigned(c.v[j], sess.w))
      [] c.k = "UGE_ULE" ->
            /\ Eval(c.e[1], a) >= ToUnsigned(c.v[1], sess.w)
            /\ Eval(c.e[1], a) <= ToUnsigned(c.v[2], sess.w)
      [] c.k = "SGE_SLE" ->
            /\ ToSigned(Eval(c.e[1], a), sess.w) >= ToSigned(ToUnsigned(c.v[1], sess.w), sess.w)
            /\ ToSigned(Eval(c.e[1], a), sess.w) <= ToSigned(ToUnsigned(c.v[2], sess.w), sess.w)

\* z3.Solver: push, add, pop, assertions
solver_push(s) == Append(s, {})
solver_add_Outermost(s, c) == [s EXCEPT ![1] = @ \cup {c}]
solver_add(s, c) == [s EXCEPT ![Len(s)] = @ \cup {c}]
solver_pop(s) == SubSeq(s, 1, Len(s) - 1)
Assertions(s) == UNION Range(s)
Depth(s) == Len(s) - 1

\* the models of the session's assertions together with the assumptions
Models(s, assumptions) ==
    {a \in Universe : \A c \in Assertions(s) \cup assumptions : Holds(c, a)}

\* reasons the engine gives for an unknown result
InterruptReasons == {"interrupted from keyboard", "interrupted"}
ResourceReasons == {"timeout", "max. resource limit exceeded", "max. memory exceeded"}
OtherReasons == {"canceled", "(incomplete quantifiers)"}
Reasons == InterruptReasons \cup ResourceReasons \cup OtherReasons

\* what solver.check(assumptions) can answer
CheckOutcomes(M) ==
    {[result |-> IF M = {} THEN "unsat" ELSE "sat", reason |-> ""]}
        \cup {[result |-> "unknown", reason |-> r] : r \in Reasons}

\* solver.check(assumptions) leaves the session's frames as they are
SolverCheckAsserting(s, assumptions) ==
    [s EXCEPT ![Len(s)] = @ \cup assumptions]
solver_check(s, assumptions) == s

----------------------------------------------------------------------------
(* z3_solver_sat: classification of a check's result *)

z3_solver_sat_NoPlainInterrupt(result, reason) ==
    IF result = "unknown"
    THEN IF reason \in {"interrupted from keyboard"}
         THEN [raise |-> "KeyboardInterrupt", value |-> FALSE]
         ELSE IF reason \in {"timeout", "max. resource limit exceeded", "max. memory exceeded",
                             "interrupted"}
         THEN [raise |-> "ClaripySolverInterruptError", value |-> FALSE]
         ELSE [raise |-> "ClaripyZ3Error", value |-> FALSE]
    ELSE [raise |-> "none", value |-> (result = "sat")]

z3_solver_sat(result, reason) ==
    IF result = "unknown"
    THEN IF reason \in {"interrupted from keyboard", "interrupted"}
         THEN [raise |-> "KeyboardInterrupt", value |-> FALSE]
         ELSE IF reason \in {"timeout", "max. resource limit exceeded", "max. memory exceeded"}
         THEN [raise |-> "ClaripySolverInterruptError", value |-> FALSE]
         ELSE [raise |-> "ClaripyZ3Error", value |-> FALSE]
    ELSE [raise |-> "none", value |-> (result = "sat")]

----------------------------------------------------------------------------
(* Sessions and call arguments explored *)

X == <<"x">>

\* a two-symbol session of 2-bit vectors tied by x + y == 2, the 8-bit
\* session of the documented example (expr < 200 and expr > 10), and a
\* session over one unconstrained 1-bit vector
Sessions ==
    {[w |-> 2, vars |-> {"x", "y"}, base |-> b] :
        b \in {{Cons("EQ", <<"x+y">>, <<2>>)},
               {Cons("EQ", <<"x+y">>, <<2>>), Cons("UGT", X, <<0>>)},
               {Cons("EQ", <<"x+y">>, <<2>>), Cons("UGT", X, <<0>>), Cons("ULT", X, <<1>>)}}}
    \cup {[w |-> 8, vars |-> {"x"},
           base |-> {Cons("ULT", X, <<200>>), Cons("UGT", X, <<10>>)}]}
    \cup {[w |-> 1, vars |-> {"x"}, base |-> {}]}

Small == sess.w = 2

\* extra constraints of _extrema: any set of disequalities x != v on the small
\* session, so that x ranges over every subset of its domain
ExtraSets ==
    IF Small THEN SUBSET {Cons("NE", X, <<v>>) : v \in 0 .. 3} ELSE {{}}

\* extra constraints of _satisfiable and _batch_eval
BatchExtraSets ==
    IF Small
    THEN {{}, {Cons("NE", X, <<1>>)},
          {Cons("NE", X, <<0>>), Cons("NE", X, <<1>>), Cons("NE", X, <<2>>)}}
    ELSE {{}}

ExprLists == IF Small THEN {X, <<"x", "y">>, <<"x+y", "x">>} ELSE {X}

Exprs == IF Small THEN {"x", "y", "x+y"} ELSE {"x"}

\* enumeration of the 8-bit session is explored for n <= 1 only
Ns == IF Small THEN 0 .. MaxN ELSE 0 .. 1

NoCall == [op |-> "none", exprs |-> <<>>, n |-> 0, extra |-> {}, is_max |-> FALSE,
           signed |-> FALSE, i |-> 0, lo |-> 0, hi |-> 0, result_values |-> <<>>]

NoCheck == [result |-> "none", reason |-> ""]

\* the state of a session right after it was built and asserted into
InitSolveVars(SS) ==
    /\ sess \in SS
    /\ solver = <<sess.base>>
    /\ solve_count = 0
    /\ pc = "idle"
    /\ call = NoCall
    /\ entry = <<>>
    /\ nchecks = 0
    /\ total_checks = 0
    /\ last_check = NoCheck
    /\ raised = "none"
    /\ retval = <<>>
    /\ ncalls = 0

\* a new operation starts when none is running; a session on which an
\* operation raised is not explored further
CanCall == pc \in {"idle", "returned"} /\ ncalls < MaxCalls

----------------------------------------------------------------------------
(* _satisfiable: one check with the extra constraints as assumptions *)

\* common effect of one native check made through z3_solver_sat
Checked(assumptions, o) ==
    /\ solver' = solver_check(solver, assumptions)
    /\ nchecks' = nchecks + 1
    /\ total_checks' = total_checks + 1
    /\ last_check' = o

Satisfiable ==
    /\ CanCall
    /\ \E extra \in BatchExtraSets :
         \E o \in CheckOutcomes(Models(solver, extra)) :
            LET z == z3_solver_sat(o.result, o.reason) IN
            /\ call' = [NoCall EXCEPT !.op = "satisfiable", !.extra = extra]
            /\ entry' = solver
            /\ ncalls' = ncalls + 1
            /\ solve_count' = solve_count + 1
            /\ solver' = solver_check(solver, extra)
            /\ nchecks' = 1
            /\ total_checks' = total_checks + 1
            /\ last_check' = o
            /\ raised' = z.raise
            /\ pc' = IF z.raise = "none" THEN "returned" ELSE "raised"
            /\ retval' = IF z.raise = "none" THEN <<z.value>> ELSE <<>>
    /\ UNCHANGED sess
    /\ UNCHANGED nonSolveVars

----------------------------------------------------------------------------
(* _batch_eval: enumeration of distinct joint values with blocking clauses *)

\* the constraint that excludes the joint value r of exprs
BlockingFirstOnly(exprs, r) == Cons("NE", <<exprs[1]>>, <<r[1]>>)
BlockingConstraint(exprs, r) ==
    IF Len(exprs) = 1
    THEN Cons("NE", <<exprs[1]>>, <<r[1]>>)
    ELSE Cons("NOT_AND_EQ", exprs, r)

\* if n > 1: solver.push()
BatchPushesFromOne(n) == n >= 1
BatchPushes(n) == n > 1

\* if n > 1: solver.pop()
BatchPops(n) == n > 1

\* for i in range(n)
BatchLoopInclusive(i, n) == i <= n
BatchLoopRuns(i, n) == i < n

CallBatchEval ==
    /\ CanCall
    /\ \E exprs \in ExprLists, n \in Ns, extra \in BatchExtraSets :
         /\ call' = [NoCall EXCEPT !.op = "batch_eval", !.exprs = exprs, !.n = n,
                                   !.extra = extra]
         /\ solver' = IF BatchPushes(n) THEN solver_push(solver) ELSE solver
    /\ entry' = solver
    /\ ncalls' = ncalls + 1
    /\ nchecks' = 0
    /\ last_check' = NoCheck
    /\ raised' = "none"
    /\ retval' = <<>>
    /\ pc' = "batch_loop"
    /\ UNCHANGED <<sess, solve_count, total_checks>>
    /\ UNCHANGED nonSolveVars

BatchIter ==
    /\ pc = "batch_loop"
    /\ BatchLoopRuns(call.i, call.n)
    /\ solve_count' = solve_count + 1
    /\ nchecks' = nchecks + 1
    /\ total_checks' = total_checks + 1
    /\ LET M == Models(solver, call.extra)
           checked == solver_check(solver, call.extra)
       IN \E o \in CheckOutcomes(M) :
            LET z == z3_solver_sat(o.result, o.reason) IN
            /\ last_check' = o
            /\ IF z.raise # "none"
               THEN \* the exception leaves _batch_eval at once
                    /\ raised' = z.raise
                    /\ pc' = "raised"
                    /\ solver' = checked
                    /\ UNCHANGED call
               ELSE IF ~z.value
               THEN \* break
                    /\ pc' = "batch_end"
                    /\ solver' = checked
                    /\ UNCHANGED <<call, raised>>
               ELSE \E a \in M :
                      LET r == [j \in DOMAIN call.exprs |-> Eval(call.exprs[j], a)] IN
                      /\ call' = [call EXCEPT !.i = @ + 1,
                                              !.result_values = Append(@, r)]
                      /\ solver' = IF call.i + 1 # call.n
                                   THEN solver_add(checked, BlockingConstraint(call.exprs, r))
                                   ELSE checked
                      /\ pc' = "batch_loop"
                      /\ UNCHANGED raised
    /\ UNCHANGED <<sess, entry, retval, ncalls>>
    /\ UNCHANGED nonSolveVars

BatchEnd ==
    /\ pc \in {"batch_loop", "batch_end"}
    /\ pc = "batch_loop" => ~BatchLoopRuns(call.i, call.n)
    /\ solver' = IF BatchPops(call.n) THEN solver_pop(solver) ELSE solver
    /\ retval' = call.result_values
    /\ pc' = "returned"
    /\ UNCHANGED <<sess, solve_count, call, entry, nchecks, total_checks, last_check,
                   raised, ncalls>>
    /\ UNCHANGED nonSolveVars

----------------------------------------------------------------------------
(* _extrema: bisection of [lo, hi] *)

DomainLo(signed, w) == IF signed THEN -Pow2(w - 1) ELSE 0
DomainHi(signed, w) == IF signed THEN Pow2(w - 1) - 1 ELSE Pow2(w) - 1

\* the half-interval asserted in one iteration
BisectionLowerHalf(is_max, signed, expr, lo, middle, hi) ==
    Cons(IF signed THEN "SGE_SLE" ELSE "UGE_ULE", <<expr>>, <<lo, middle>>)

Bisection(is_max, signed, expr, lo, middle, hi) ==
    Cons(IF signed THEN "SGE_SLE" ELSE "UGE_ULE", <<expr>>,
         IF is_max THEN <<middle, hi>> ELSE <<lo, middle>>)

\* if sat == is_max: lo = middle, else: hi = middle
NarrowByOne(sat, is_max, lo, middle, hi) ==
    IF sat = is_max THEN <<lo + 1, hi>> ELSE <<lo, hi - 1>>
NarrowAlwaysLo(sat, is_max, lo, middle, hi) == <<middle, hi>>
Narrow(sat, is_max, lo, middle, hi) ==
    IF sat = is_max THEN <<middle, hi>> ELSE <<lo, middle>>

\* return hi if sat == is_max else lo
ExtremaResultChecked(sat, is_max, lo, hi) == IF is_max THEN hi ELSE lo
ExtremaResult(sat, is_max, lo, hi) == IF sat = is_max THEN hi ELSE lo

CallExtrema ==
    /\ CanCall
    /\ \E is_max \in BOOLEAN, signed \in BOOLEAN, expr \in Exprs, extra \in ExtraSets :
         call' = [NoCall EXCEPT !.op = "extrema", !.exprs = <<expr>>, !.extra = extra,
                                !.is_max = is_max, !.signed = signed,
                                !.lo = DomainLo(signed, sess.w),
                                !.hi = DomainHi(signed, sess.w)]
    /\ entry' = solver
    /\ ncalls' = ncalls + 1
    /\ nchecks' = 0
    /\ last_check' = NoCheck
    /\ raised' = "none"
    /\ retval' = <<>>
    /\ pc' = "extrema_loop"
    /\ UNCHANGED <<sess, solver, solve_count, total_checks>>
    /\ UNCHANGED nonSolveVars

ExtremaIter ==
    /\ pc = "extrema_loop"
    /\ call.hi - call.lo > 1
    /\ solve_count' = solve_count + 1
    /\ LET middle == (call.lo + call.hi) \div 2
           constraints == call.extra \cup
               {Bisection(call.is_max, call.signed, call.exprs[1], call.lo, middle, call.hi)}
       IN \E o \in CheckOutcomes(Models(solver, constraints)) :
            LET z == z3_solver_sat(o.result, o.reason) IN
            /\ Checked(constraints, o)
            /\ IF z.raise # "none"
               THEN /\ raised' = z.raise
                    /\ pc' = "raised"
                    /\ UNCHANGED call
               ELSE LET nw == Narrow(z.value, call.is_max, call.lo, middle, call.hi) IN
                    /\ call' = [call EXCEPT !.lo = nw[1], !.hi = nw[2], !.i = @ + 1]
                    /\ pc' = "extrema_loop"
                    /\ UNCHANGED raised
    /\ UNCHANGED <<sess, entry, retval, ncalls>>
    /\ UNCHANGED nonSolveVars

ExtremaFinal ==
    /\ pc = "extrema_loop"
    /\ ~(call.hi - call.lo > 1)
    /\ LET constraints == call.extra \cup
               {Cons("EQ", call.exprs, <<IF call.is_max THEN call.hi ELSE call.lo>>)}
       IN \E o \in CheckOutcomes(Models(solver, constraints)) :
            LET z == z3_solver_sat(o.result, o.reason) IN
            /\ Checked(constraints, o)
            /\ raised' = z.raise
            /\ pc' = IF z.raise = "none" THEN "returned" ELSE "raised"
            /\ retval' = IF z.raise = "none"
                         THEN <<ExtremaResult(z.value, call.is_max, call.lo, call.hi)>>
                         ELSE <<>>
    /\ UNCHANGED <<sess, solve_count, call, entry, ncalls>>
    /\ UNCHANGED nonSolveVars

NextSolve ==
    \/ Satisfiable
    \/ CallBatchEval
    \/ BatchIter
    \/ BatchEnd
    \/ CallExtrema
    \/ ExtremaIter
    \/ ExtremaFinal

----------------------------------------------------------------------------
(* Properties of the solving protocols *)

\* the distinct joint values of exprs over the models of the frames s and extra
JointValues(s, extra, exprs) ==
    {[j \in DOMAIN exprs |-> Eval(exprs[j], a)] : a \in Models(s, extra)}

\* the values expr takes over the models, read unsigned or signed
FeasibleValues(s, extra, expr, signed) ==
    {IF signed THEN ToSigned(Eval(expr, a), sess.w) ELSE Eval(expr, a) :
        a \in Models(s, extra)}

BatchReturned == pc = "returned" /\ call.op = "batch_eval"
ExtremaReturned == pc = "returned" /\ call.op = "extrema"

\* C1: when the constraints in force at the call admit exactly k distinct joint
\* values of exprs, _batch_eval(exprs, n) returns min(n, k) tuples, pairwise
\* different, each one a joint value of a model of the constraints.
C1_BatchEvalDistinct ==
    BatchReturned =>
        LET J == JointValues(entry, call.extra, call.exprs) IN
        /\ Len(retval) = Min(call.n, Cardinality(J))
        /\ \A i, j \in DOMAIN retval : i # j => retval[i] # retval[j]
        /\ \A i \in DOMAIN retval : retval[i] \in J

C1_Witness ==
    /\ BatchReturned
    /\ call.n = 3
    /\ Len(call.exprs) = 2
    /\ Len(retval) = 3
    /\ Cardinality(JointValues(entry, call.extra, call.exprs)) = 4

\* C2: with satisfiable constraints _extrema returns the greatest (is_max) or
\* least feasible value of expr, in the unsigned and in the signed reading; on
\* the 8-bit session with expr < 200 and expr > 10 the unsigned maximum is 199
\* and the unsigned minimum is 11.
C2_ExtremaCorrect ==
    ExtremaReturned =>
        LET F == FeasibleValues(entry, call.extra, call.exprs[1], call.signed) IN
        /\ F # {} => retval[1] = IF call.is_max THEN SetMax(F) ELSE SetMin(F)
        /\ (sess.w = 8 /\ ~call.signed) => retval[1] = IF call.is_max THEN 199 ELSE 11

C2_Witness ==
    /\ ExtremaReturned
    /\ sess.w = 8
    /\ call.is_max
    /\ ~call.signed
    /\ retval = <<199>>

\* C4: an operation whose native check was interrupted ends with the
\* interruption kind and with the session at the depth it was called at.
C4_InterruptKeepsDepth ==
    (pc = "raised" /\ last_check.result = "unknown"
        /\ last_check.reason \in InterruptReasons) =>
        /\ raised = "KeyboardInterrupt"
        /\ Depth(solver) = Depth(entry)

\* C5: an unknown result is classified by its reason alone (interruption ->
\* KeyboardInterrupt, timeout or resource -> ClaripySolverInterruptError,
\* anything else -> ClaripyZ3Error); sat and unsat raise nothing.
C5_UnknownClassified ==
    last_check.result # "none" =>
        /\ (last_check.result = "unknown" /\ last_check.reason \in InterruptReasons)
               => (raised = "KeyboardInterrupt" /\ pc = "raised")
        /\ (last_check.result = "unknown" /\ last_check.reason \in ResourceReasons)
               => (raised = "ClaripySolverInterruptError" /\ pc = "raised")
        /\ (last_check.result = "unknown"
                /\ last_check.reason \notin InterruptReasons \cup ResourceReasons)
               => (raised = "ClaripyZ3Error" /\ pc = "raised")
        /\ last_check.result \in {"sat", "unsat"} => (raised = "none" /\ pc # "raised")

C5_Witness ==
    /\ last_check = [result |-> "unknown", reason |-> "interrupted"]
    /\ raised = "KeyboardInterrupt"
    /\ pc = "raised"

\* C6 as stated: _batch_eval(exprs, n) on constraints with k distinct joint
\* values makes exactly min(n, k) native check calls.
C6_ChecksMinNK ==
    BatchReturned =>
        nchecks = Min(call.n, Cardinality(JointValues(entry, call.extra, call.exprs)))

\* C6 as amended: it makes min(n, k + 1) native check calls: n when k >= n, and
\* k + 1 when k < n, the last of them the failing check that ends the loop.
C6_ChecksMinNKPlusOne ==
    BatchReturned =>
        nchecks = Min(call.n, Cardinality(JointValues(entry, call.extra, call.exprs)) + 1)

C6_Witness ==
    /\ BatchReturned
    /\ call.n = 3
    /\ Cardinality(JointValues(entry, call.extra, call.exprs)) = 1
    /\ nchecks = 2

\* C8: _satisfiable and _extrema leave the session's frames (assertions and
\* depth) as they were at the call, whether they return or raise.
C8_AssumptionsOnly ==
    (pc \in {"returned", "raised"} /\ call.op \in {"satisfiable", "extrema"}) =>
        solver = entry

C8_Witness ==
    /\ pc = "raised"
    /\ call.op = "extrema"
    /\ call.extra # {}
    /\ nchecks = 2
    /\ solver = entry

\* the extremum the call is after
TrueExtremum ==
    LET F == FeasibleValues(entry, call.extra, call.exprs[1], call.signed) IN
    IF call.is_max THEN SetMax(F) ELSE SetMin(F)

ExtremaFeasible == FeasibleValues(entry, call.extra, call.exprs[1], call.signed) # {}

\* one iteration of the bisection loop has just been made
IterationStep ==
    /\ pc = "extrema_loop"
    /\ pc' = "extrema_loop"
    /\ call'.i = call.i + 1

\* a feasible check moves lo to the midpoint for max and hi for min, an
\* infeasible one moves hi for max and lo for min
NarrowedTowardsExtremum ==
    IterationStep =>
        LET middle == (call.lo + call.hi) \div 2
            feasible == last_check'.result = "sat"
        IN IF feasible = call.is_max
           THEN call'.lo = middle /\ call'.hi = call.hi
           ELSE call'.hi = middle /\ call'.lo = call.lo

\* C19: in _extrema with satisfiable constraints, [lo, hi] contains the true
\* extremum before the first iteration and after every iteration, for max and
\* min, signed and unsigned; each iteration narrows as described.
C19_IntervalHoldsExtremum ==
    /\ []((pc = "extrema_loop" /\ ExtremaFeasible)
            => (call.lo <= TrueExtremum /\ TrueExtremum <= call.hi))
    /\ [][NarrowedTowardsExtremum]_vars

C19_Witness ==
    /\ pc = "extrema_loop"
    /\ ExtremaFeasible
    /\ call.signed
    /\ ~call.is_max
    /\ call.i = 1
    /\ call.hi - call.lo = 1
    /\ call.lo < TrueExtremum

\* an _extrema call is running or has ended
InExtrema == call.op = "extrema" /\ pc \in {"extrema_loop", "returned", "raised"}

\* the confirming check has just been made and the call returns
FinalCheckStep == pc = "extrema_loop" /\ pc' = "returned"

\* the confirming check is made once, when hi - lo is 1, and asks for the
\* boundary value: hi for max, lo for min
FinalCheckAtBoundary ==
    FinalCheckStep =>
        /\ call.hi - call.lo = 1
        /\ nchecks' = call.i + 1
        /\ (last_check'.result = "sat") <=>
              (\E a \in Models(solver, call.extra) :
                  Eval(call.exprs[1], a) =
                      ToUnsigned(IF call.is_max THEN call.hi ELSE call.lo, sess.w))

\* C20: for every width and every outcome of the checks _extrema terminates:
\* the loop runs at most w times and stops when hi - lo is 1, one confirming
\* check at the boundary value follows, at most w + 1 native checks are made.
C20_ExtremaTerminates ==
    /\ [](InExtrema => (call.i <= sess.w /\ nchecks <= sess.w + 1))
    /\ [](pc = "extrema_loop" => call.hi - call.lo >= 1)
    /\ []((InExtrema /\ pc = "returned") => nchecks = call.i + 1)
    /\ [][FinalCheckStep => call.hi - call.lo = 1]_vars
    /\ [][FinalCheckAtBoundary]_vars
    /\ (pc = "extrema_loop") ~> (pc \in {"returned", "raised"})

C20_Witness ==
    /\ InExtrema
    /\ pc = "returned"
    /\ sess.w = 8
    /\ call.i = 8
    /\ nchecks = 9

\* a _batch_eval call is running or has returned
InBatchEval == call.op = "batch_eval" /\ pc \in {"batch_loop", "batch_end", "returned"}

\* the step that enters _batch_eval, one of its checks, and its return
BatchEntryStep == pc \in {"idle", "returned"} /\ pc' = "batch_loop"
BatchCheckStep == pc = "batch_loop" /\ nchecks' = nchecks + 1
BatchReturnStep == pc \in {"batch_loop", "batch_end"} /\ pc' = "returned"

\* pushes on entry iff n > 1, never around a check, pops on return iff n > 1
BatchScopeSteps ==
    /\ BatchEntryStep =>
          Len(solver') = Len(solver) + (IF call'.n > 1 THEN 1 ELSE 0)
    /\ BatchCheckStep => Len(solver') = Len(solver)
    /\ BatchReturnStep =>
          Len(solver') = Len(solver) - (IF call.n > 1 THEN 1 ELSE 0)

\* C21: _batch_eval pushes one scope before its first check iff n > 1 and pops
\* it exactly once after the last check on every normal return, so the depth
\* on return equals the depth on entry.
C21_PushPopBalanced ==
    /\ [][BatchScopeSteps]_vars
    /\ []((InBatchEval /\ pc # "returned")
            => Depth(solver) = Depth(entry) + (IF call.n > 1 THEN 1 ELSE 0))
    /\ []((InBatchEval /\ pc = "returned") => Depth(solver) = Depth(entry))

\* returned after the solutions ran out before n of them were found
C21_Witness ==
    /\ InBatchEval
    /\ pc = "returned"
    /\ call.n = 3
    /\ Len(retval) = 1
    /\ nchecks = 2
    /\ Depth(solver) = Depth(entry)

\* a check of _batch_eval leaves the frames the call found as they were, adds
\* nothing when n <= 1 and nothing after the last requested iteration
BlockingInsideScope ==
    BatchCheckStep =>
        /\ SubSeq(solver', 1, Len(entry)) = entry
        /\ (call.n <= 1 \/ call.i + 1 = call.n) => solver' = solver

\* C22: every blocking constraint of _batch_eval is asserted inside the scope
\* it pushed, none when n <= 1 and none after the final requested iteration, so
\* after a normal return the session's assertions are those before the call.
C22_AssertionsRestored ==
    /\ [][BlockingInsideScope]_vars
    /\ []((InBatchEval /\ pc = "returned")
            => (solver = entry /\ Assertions(solver) = Assertions(entry)))

\* returned with all n requested solutions, blocking constraints having been added
C22_Witness ==
    /\ InBatchEval
    /\ pc = "returned"
    /\ call.n = 3
    /\ Len(retval) = 3
    /\ Len(call.exprs) = 2
    /\ Assertions(solver) = Assertions(entry)

\* an _extrema call whose constraints no assignment satisfies
ExtremaInfeasible == InExtrema /\ ~ExtremaFeasible

\* a check of such a call that the engine answers raises nothing
InfeasibleCheckStep ==
    (ExtremaInfeasible /\ pc = "extrema_loop" /\ last_check'.result = "unsat")
        => (pc' # "raised" /\ raised' = "none")

\* C25: with unsatisfiable constraints _extrema raises no error and returns a
\* boundary of the search domain: max the domain minimum, min the domain
\* maximum, a value that does not satisfy the constraints.
C25_InfeasibleReturnsBoundary ==
    /\ [][InfeasibleCheckStep]_vars
    /\ []((ExtremaInfeasible /\ pc = "returned") =>
            /\ raised = "none"
            /\ retval = <<IF call.is_max THEN DomainLo(call.signed, sess.w)
                          ELSE DomainHi(call.signed, sess.w)>>
            /\ retval[1] \notin FeasibleValues(entry, call.extra, call.exprs[1], call.signed))

C25_Witness ==
    /\ ExtremaInfeasible
    /\ pc = "returned"
    /\ call.signed
    /\ call.is_max
    /\ call.extra # {}
    /\ retval = <<-2>>
    /\ nchecks = 2

\* C30: on one thread solve_count goes up by exactly one for every native check
\* made by _satisfiable, _batch_eval and _extrema, so it equals the number of
\* native checks performed.
C30_SolveCountIsChecks == solve_count = total_checks

----------------------------------------------------------------------------
(* The AST cache: SmartLRUCache keyed by the native term's handle *)

\* Native terms of one context, by handle.  1 and 2 are a symbol and a
\* numeral (abstracted without being cached), 3 to 5 are applications of
\* mapped operators, 6 is an application whose declaration kind has no IR tag,
\* 7 is an uninterpreted application with an argument.
Terms == 1 .. 7

Children(t) ==
    CASE t = 3 -> <<1, 2>>
      [] t = 4 -> <<3, 2>>
      [] t = 5 -> <<3, 4>>
      [] t = 6 -> <<3>>
      [] t = 7 -> <<4>>
      [] OTHER -> <<>>

TermKind(t) ==
    CASE t \in {1, 2} -> "leaf"
      [] t = 6 -> "unmapped"
      [] t = 7 -> "mystery"
      [] OTHER -> "app"

\* IR nodes as the cache sees them: where the node came from, the native term
\* it stands for, and its _simplified mark
Node(of, t) == [of |-> of, term |-> t, simplified |-> FALSE]

CacheKeys(c) == {c[i].h : i \in DOMAIN c}

RemoveKey(c, h) == SelectSeq(c, LAMBDA e : e.h # h)

\* LRUCache.__getitem__ on a hit: the key becomes the most recently used
CacheTouch(c, h) ==
    LET e == CHOOSE e \in Range(c) : e.h = h IN Append(RemoveKey(c, h), e)

CacheGet(c, h) == CHOOSE e \in Range(c) : e.h = h

\* _pop_from_ast_cache: Z3_dec_ref on the evicted entry's native term
PopFromAstCache(st, e) == [st EXCEPT !.dec[e.raw_ast] = @ + 1]

\* SmartLRUCache.popitem: drop the least recently used entry, then _evict
PopItem(st) ==
    PopFromAstCache([st EXCEPT !.cache = Tail(@)], Head(st.cache))

\* LRUCache.__setitem__: evict while the cache is full, store, mark as most
\* recently used; an existing key keeps its place in the count
RECURSIVE MakeRoom(_)
MakeRoom(st) ==
    IF Len(st.cache) + 1 > AstCacheSize THEN MakeRoom(PopItem(st)) ELSE st

CacheSet(st, h, node) ==
    LET e == [h |-> h, node |-> node, raw_ast |-> h] IN
    IF h \in CacheKeys(st.cache)
    THEN [st EXCEPT !.cache = Append(RemoveKey(@, h), e)]
    ELSE LET st1 == MakeRoom(st) IN [st1 EXCEPT !.cache = Append(@, e)]

\* MutableMapping.clear: popitem until the cache is empty
RECURSIVE CacheClear(_)
CacheClear(st) == IF st.cache = <<>> THEN st ELSE CacheClear(PopItem(st))

\* Z3_inc_ref after the insertion in _abstract_internal
IncRef(st, t) == [st EXCEPT !.inc[t] = @ + 1]

\* _abstract_internal on the state [cache, inc, dec, err, node]
RECURSIVE AbstractInternal(_, _)
RECURSIVE AbstractChildren(_, _, _)
AbstractChildren(st, cs, i) ==
    IF i > Len(cs) \/ st.err # "none" THEN st
    ELSE AbstractChildren(AbstractInternal(st, cs[i]), cs, i + 1)

AbstractInternal(st, t) ==
    IF t \in CacheKeys(st.cache)
    THEN [st EXCEPT !.cache = CacheTouch(@, t), !.node = CacheGet(st.cache, t).node]
    ELSE IF TermKind(t) = "unmapped"
    THEN [st EXCEPT !.err = "ClaripyError"]
    ELSE LET st1 == AbstractChildren(st, Children(t), 1) IN
         IF st1.err # "none" THEN st1
         ELSE IF TermKind(t) = "leaf"
         THEN [st1 EXCEPT !.node = Node("abstract", t)]
         ELSE IF TermKind(t) = "mystery"
         THEN [st1 EXCEPT !.err = "UnboundLocalError"]
         ELSE [IncRef(CacheSet(st1, t, Node("abstract", t)), t)
                  EXCEPT !.node = Node("abstract", t)]

CacheState ==
    [cache |-> ast_cache, inc |-> inc_refs, dec |-> dec_refs, err |-> "none",
     node |-> Node("none", 0)]

\* the state of a thread's caches when the thread first uses them
InitCacheVars ==
    /\ ast_cache = <<>>
    /\ inc_refs = [t \in Terms |-> 0]
    /\ dec_refs = [t \in Terms |-> 0]
    /\ var_cache = {}
    /\ sym_cache = {}
    /\ cache_op = [op |-> "none", err |-> "none"]
    /\ cache_nops = 0

CacheCommit(st, op) ==
    /\ ast_cache' = st.cache
    /\ inc_refs' = st.inc
    /\ dec_refs' = st.dec
    /\ cache_op' = [op |-> op, err |-> st.err]
    /\ cache_nops' = cache_nops + 1

\* _abstract(e)
Abstract ==
    /\ cache_nops < MaxCacheOps
    /\ \E t \in Terms : CacheCommit(AbstractInternal(CacheState, t), "abstract")
    /\ UNCHANGED <<var_cache, sym_cache>>
    /\ UNCHANGED nonCacheVars

\* add(s, c, track): with track every constraint is stored under its native
\* term's handle; the solver's part of add is not the cache's concern
RECURSIVE AddTracked(_, _, _)
AddTracked(st, c, i) ==
    IF i > Len(c) THEN st
    ELSE AddTracked(CacheSet(st, c[i], Node("caller", c[i])), c, i + 1)

Constraints == {<<t>> : t \in {1, 4, 5}} \cup {<<4, 5>>, <<5, 4>>}

Add ==
    /\ cache_nops < MaxCacheOps
    /\ \E c \in Constraints, track \in BOOLEAN :
         CacheCommit(IF track THEN AddTracked(CacheState, c, 1) ELSE CacheState,
                     IF track THEN "add_track" ELSE "add")
    /\ UNCHANGED <<var_cache, sym_cache>>
    /\ UNCHANGED nonCacheVars

\* simplify(expr): the engine rewrites the lowered term into some term, which
\* is abstracted and marked fully simplified
MarkSimplified(st) ==
    [st EXCEPT !.cache = [i \in DOMAIN @ |->
        IF @[i].node = st.node THEN [@[i] EXCEPT !.node.simplified = TRUE] ELSE @[i]]]

Simplify ==
    /\ cache_nops < MaxCacheOps
    /\ \E simplified \in Terms :
         LET st == AbstractInternal(CacheState, simplified) IN
         CacheCommit(IF st.err = "none" THEN MarkSimplified(st) ELSE st, "simplify")
    /\ UNCHANGED <<var_cache, sym_cache>>
    /\ UNCHANGED nonCacheVars

\* downsize()
Downsize ==
    /\ cache_nops < MaxCacheOps
    /\ CacheCommit(CacheClear(CacheState), "downsize")
    /\ var_cache' = {}
    /\ sym_cache' = {}
    /\ UNCHANGED nonCacheVars

NextCache ==
    \/ Abstract
    \/ Add
    \/ Simplify
    \/ Downsize

\* native references held on behalf of the cache for term t
HeldRefs(t) == inc_refs[t] - dec_refs[t]

\* C3: the cache holds exactly one native reference for a term that is in the
\* cache and none for a term that is not.
C3_OneRefPerCachedTerm ==
    \A t \in Terms : HeldRefs(t) = IF t \in CacheKeys(ast_cache) THEN 1 ELSE 0

\* C9: after downsize() the thread's caches are empty and every reference
\* pinned for a cache entry has been released exactly once.
C9_DownsizeReleasesAll ==
    cache_op.op = "downsize" =>
        /\ ast_cache = <<>>
        /\ var_cache = {}
        /\ sym_cache = {}
        /\ \A t \in Terms : dec_refs[t] = inc_refs[t]

\* C18: no operation changes an attribute of a node that exists already: a
\* node held in the cache before a step and still held after it has the
\* _simplified mark it had.
CachedNodesKept ==
    \A i \in DOMAIN ast_cache, j \in DOMAIN ast_cache' :
        (ast_cache[i].h = ast_cache'[j].h /\ ~ast_cache[i].node.simplified)
            => ~ast_cache'[j].node.simplified

C18_NodesImmutable == [][CachedNodesKept]_vars

----------------------------------------------------------------------------
(* Expression nodes and native terms *)

\* An IR node: operation tag, arguments (nodes or primitives), bit-length
\* (0 where the node has none).  None among integer arguments is -1.
IR(op, args, length) ==
    [op |-> op, args |-> args, length |-> length, annotations |-> <<>>]
\* the same with annotations
Annotated(n, annotations) == [n EXCEPT !.annotations = annotations]

\* A native term: declaration kind, declaration parameters, operands, sort,
\* and for a symbol its name, for a numeral its value.
BVSort(n) == [kind |-> "BV", size |-> n]
BoolSort == [kind |-> "Bool", size |-> 0]
IntSort == [kind |-> "Int", size |-> 0]
\* the floating-point sort of FSort.from_params(ebits, sbits), by its length
FPSort(n) == [kind |-> "FP", size |-> n]
\* the IR's name of that sort
FSortName(n) == IF n = 64 THEN "DOUBLE" ELSE "FLOAT"
NT(decl, params, args, sort, name, value) ==
    [decl |-> decl, params |-> params, args |-> args, sort |-> sort,
     name |-> name, value |-> value]

NoNode == IR("none", <<>>, 0)
NoTerm == NT("none", <<>>, <<>>, BoolSort, "", 0)
ErrorNode(kind) == IR("ERROR", <<kind>>, 0)
ErrorTerm(kind) == NT("ERROR", <<>>, <<>>, BoolSort, kind, 0)

\* operators lowered by reduce() over all operands (_op_add ... _op_and)
FoldOps == {"__add__", "__sub__", "__mul__", "__or__", "__xor__", "__and__"}
\* operators lowered by one native call on two bitvectors
BinaryOps == {"__floordiv__", "__mod__", "SDiv", "SMod", "LShR", "RotateLeft", "RotateRight"}
\* comparisons: the IR tags __ge__ ... __lt__ are lowered as the unsigned ones
CompareOps == {"__ge__", "__gt__", "__le__", "__lt__", "UGE", "UGT", "ULE", "ULT",
               "SGE", "SGT", "SLE", "SLT"}

\* self._op_raw: the native declaration an operation tag is lowered to
op_raw(op) ==
    CASE op = "__add__" -> "Z3_OP_BADD"
      [] op = "__sub__" -> "Z3_OP_BSUB"
      [] op = "__mul__" -> "Z3_OP_BMUL"
      [] op = "__or__" -> "Z3_OP_BOR"
      [] op = "__xor__" -> "Z3_OP_BXOR"
      [] op = "__and__" -> "Z3_OP_BAND"
      [] op = "__floordiv__" -> "Z3_OP_BUDIV"
      [] op = "__mod__" -> "Z3_OP_BUREM"
      [] op = "SDiv" -> "Z3_OP_BSDIV"
      [] op = "SMod" -> "Z3_OP_BSREM"
      [] op = "LShR" -> "Z3_OP_BLSHR"
      [] op = "RotateLeft" -> "Z3_OP_EXT_ROTATE_LEFT"
      [] op = "RotateRight" -> "Z3_OP_EXT_ROTATE_RIGHT"
      [] op \in {"__ge__", "UGE"} -> "Z3_OP_UGEQ"
      [] op \in {"__gt__", "UGT"} -> "Z3_OP_UGT"
      [] op \in {"__le__", "ULE"} -> "Z3_OP_ULEQ"
      [] op \in {"__lt__", "ULT"} -> "Z3_OP_ULT"
      [] op = "SGE" -> "Z3_OP_SGEQ"
      [] op = "SGT" -> "Z3_OP_SGT"
      [] op = "SLE" -> "Z3_OP_SLEQ"
      [] op = "SLT" -> "Z3_OP_SLT"
      [] op = "And" -> "Z3_OP_AND"
      [] op = "Or" -> "Z3_OP_OR"
      [] op = "Not" -> "Z3_OP_NOT"
      [] op = "If" -> "Z3_OP_ITE"
      [] op = "Concat" -> "Z3_OP_CONCAT"
      [] op = "Extract" -> "Z3_OP_EXTRACT"
      [] op = "SignExt" -> "Z3_OP_SIGN_EXT"
      [] op = "ZeroExt" -> "Z3_OP_ZERO_EXT"

\* op_map: the IR tag of a native declaration kind ("None" where the table
\* holds None, as it does for every kind not listed here)
op_map(decl) ==
    CASE decl = "Z3_OP_BADD" -> "__add__"
      [] decl = "Z3_OP_BSUB" -> "__sub__"
      [] decl = "Z3_OP_BMUL" -> "__mul__"
      [] decl = "Z3_OP_BOR" -> "__or__"
      [] decl = "Z3_OP_BXOR" -> "__xor__"
      [] decl = "Z3_OP_BAND" -> "__and__"
      [] decl = "Z3_OP_BUDIV" -> "__floordiv__"
      [] decl = "Z3_OP_BUREM" -> "__mod__"
      [] decl = "Z3_OP_BSDIV" -> "SDiv"
      [] decl = "Z3_OP_BSREM" -> "SMod"
      [] decl = "Z3_OP_BSMOD" -> "SMod"
      [] decl = "Z3_OP_BLSHR" -> "LShR"
      [] decl = "Z3_OP_EXT_ROTATE_LEFT" -> "RotateLeft"
      [] decl = "Z3_OP_EXT_ROTATE_RIGHT" -> "RotateRight"
      [] decl = "Z3_OP_UGEQ" -> "UGE"
      [] decl = "Z3_OP_UGT" -> "UGT"
      [] decl = "Z3_OP_ULEQ" -> "ULE"
      [] decl = "Z3_OP_ULT" -> "ULT"
      [] decl = "Z3_OP_SGEQ" -> "SGE"
      [] decl = "Z3_OP_SGT" -> "SGT"
      [] decl = "Z3_OP_SLEQ" -> "SLE"
      [] decl = "Z3_OP_SLT" -> "SLT"
      [] decl = "Z3_OP_AND" -> "And"
      [] decl = "Z3_OP_OR" -> "Or"
      [] decl = "Z3_OP_NOT" -> "Not"
      [] decl = "Z3_OP_ITE" -> "If"
      [] decl = "Z3_OP_CONCAT" -> "Concat"
      [] decl = "Z3_OP_EXTRACT" -> "Extract"
      [] decl = "Z3_OP_SIGN_EXT" -> "SignExt"
      [] decl = "Z3_OP_ZERO_EXT" -> "ZeroExt"
      [] decl = "Z3_OP_BNUM" -> "BitVecVal"
      [] decl = "Z3_OP_TRUE" -> "True"
      [] decl = "Z3_OP_FALSE" -> "False"
      [] decl = "Z3_OP_UNINTERPRETED" -> "UNINTERPRETED"
      [] decl = "Z3_OP_ADD" -> "__add__"
      [] decl = "Z3_OP_SUB" -> "__sub__"
      [] decl = "Z3_OP_MUL" -> "__mul__"
      [] decl = "Z3_OP_DIV" -> "SDiv"
      [] decl = "Z3_OP_IDIV" -> "SDiv"
      [] decl = "Z3_OP_MOD" -> "__mod__"
      [] decl = "Z3_OP_REM" -> "__mod__"
      [] decl = "Z3_OP_POWER" -> "__pow__"
      [] decl = "Z3_OP_UMINUS" -> "__neg__"
      [] decl = "Z3_OP_GE" -> "SGE"
      [] decl = "Z3_OP_GT" -> "SGT"
      [] decl = "Z3_OP_LE" -> "SLE"
      [] decl = "Z3_OP_LT" -> "SLT"
      [] OTHER -> "None"

\* op_type_map: the result category of a native declaration kind: "Bool",
\* "BV", a string entry ("str"), or "None" where the table holds None
op_type_map(decl) ==
    CASE decl \in {"Z3_OP_BADD", "Z3_OP_BSUB", "Z3_OP_BMUL", "Z3_OP_BOR", "Z3_OP_BXOR",
                   "Z3_OP_BAND", "Z3_OP_BUDIV", "Z3_OP_BUREM", "Z3_OP_BSDIV", "Z3_OP_BSREM",
                   "Z3_OP_BSMOD", "Z3_OP_BLSHR", "Z3_OP_EXT_ROTATE_LEFT",
                   "Z3_OP_EXT_ROTATE_RIGHT", "Z3_OP_CONCAT", "Z3_OP_EXTRACT",
                   "Z3_OP_SIGN_EXT", "Z3_OP_ZERO_EXT"} -> "BV"
      [] decl \in {"Z3_OP_UGEQ", "Z3_OP_UGT", "Z3_OP_ULEQ", "Z3_OP_ULT", "Z3_OP_SGEQ",
                   "Z3_OP_SGT", "Z3_OP_SLEQ", "Z3_OP_SLT", "Z3_OP_AND", "Z3_OP_OR",
                   "Z3_OP_NOT", "Z3_OP_ITE", "Z3_OP_TRUE", "Z3_OP_FALSE"} -> "Bool"
      [] decl \in {"Z3_OP_BNUM", "Z3_OP_UNINTERPRETED"} -> "str"
      [] OTHER -> "None"

\* op_name = op_map[z3_op_nums[decl_num]]
op_name_SubAsAdd(t) == IF t.decl = "Z3_OP_BSUB" THEN "__add__" ELSE op_map(t.decl)

op_name_of(t) == op_map(t.decl)

\* the sort the engine gives an application
AppSort(decl, params, args) ==
    CASE decl \in {"Z3_OP_UGEQ", "Z3_OP_UGT", "Z3_OP_ULEQ", "Z3_OP_ULT", "Z3_OP_SGEQ",
                   "Z3_OP_SGT", "Z3_OP_SLEQ", "Z3_OP_SLT", "Z3_OP_AND", "Z3_OP_OR",
                   "Z3_OP_NOT"} -> BoolSort
      [] decl = "Z3_OP_ITE" -> args[2].sort
      [] decl = "Z3_OP_CONCAT" -> BVSort(args[1].sort.size + args[2].sort.size)
      [] decl = "Z3_OP_EXTRACT" -> BVSort(params[1] - params[2] + 1)
      [] decl \in {"Z3_OP_SIGN_EXT", "Z3_OP_ZERO_EXT"} -> BVSort(params[1] + args[1].sort.size)
      [] OTHER -> args[1].sort

App(decl, params, args) == NT(decl, params, args, AppSort(decl, params, args), "", 0)

\* reduce(f, args) with f one binary native call
RECURSIVE FoldLeft(_, _, _, _)
FoldLeft(decl, acc, args, i) ==
    IF i > Len(args) THEN acc
    ELSE FoldLeft(decl, App(decl, <<>>, <<acc, args[i]>>), args, i + 1)

\* _op_raw_Reverse on a lowered operand
op_raw_Reverse(a) ==
    IF a.sort.size = 8 THEN a
    ELSE IF a.sort.size % 8 # 0 THEN ErrorTerm("ClaripyOperationError")
    ELSE LET bytes == [k \in 1 .. (a.sort.size \div 8) |->
                          App("Z3_OP_EXTRACT", <<8 * (k - 1) + 7, 8 * (k - 1)>>, <<a>>)]
         IN FoldLeft("Z3_OP_CONCAT", bytes[1], bytes, 2)

\* positions of an operation's arguments that are nodes
NodeArgs(op, args) ==
    CASE op \in {"BVV", "BVS", "BoolV", "BoolS", "FPS"} -> {}
      [] op = "Extract" -> {3}
      [] op \in {"SignExt", "ZeroExt"} -> {2}
      [] OTHER -> DOMAIN args

\* convert: the native term of an IR node
RECURSIVE Convert(_)
Convert(n) ==
    CASE n.op = "BVV" -> NT("Z3_OP_BNUM", <<>>, <<>>, BVSort(n.length), "", n.args[1])
      [] n.op = "BVS" -> NT("Z3_OP_UNINTERPRETED", <<>>, <<>>, BVSort(n.length), n.args[1], 0)
      [] n.op = "BoolV" ->
            NT(IF n.args[1] THEN "Z3_OP_TRUE" ELSE "Z3_OP_FALSE", <<>>, <<>>, BoolSort, "", 0)
      [] n.op = "BoolS" -> NT("Z3_OP_UNINTERPRETED", <<>>, <<>>, BoolSort, n.args[1], 0)
      [] n.op = "FPS" -> NT("Z3_OP_UNINTERPRETED", <<>>, <<>>, FPSort(n.length), n.args[1], 0)
      [] OTHER ->
            LET raw == [i \in NodeArgs(n.op, n.args) |-> Convert(n.args[i])] IN
            CASE n.op \in FoldOps \cup {"Concat"} ->
                    FoldLeft(op_raw(n.op), raw[1], raw, 2)
              [] n.op = "Reverse" -> op_raw_Reverse(raw[1])
              [] n.op = "Extract" ->
                    App(op_raw(n.op), <<n.args[1], n.args[2]>>, <<raw[3]>>)
              [] n.op \in {"SignExt", "ZeroExt"} ->
                    App(op_raw(n.op), <<n.args[1]>>, <<raw[2]>>)
              [] OTHER -> App(op_raw(n.op), <<>>, raw)

\* BVS(): extra_bvs_data[name] = (ast.args, ast.annotations)
RecordKeepFirst(table, n) ==
    IF n.args[1] \in DOMAIN table THEN table
    ELSE [name \in DOMAIN table \cup {n.args[1]} |->
             IF name = n.args[1] THEN <<n.args, n.annotations>> ELSE table[name]]

Record(table, n) ==
    [name \in DOMAIN table \cup {n.args[1]} |->
        IF name = n.args[1] THEN <<n.args, n.annotations>> ELSE table[name]]

\* the side-table after lowering n: its symbols are recorded as they are
\* reached, operands left to right
RECURSIVE SideTableAfter(_, _)
RECURSIVE SideTableAfterArgs(_, _, _)
SideTableAfter(table, n) ==
    IF n.op = "BVS" THEN Record(table, n)
    ELSE SideTableAfterArgs(table, n, 1)

SideTableAfterArgs(table, n, i) ==
    IF i > Len(n.args) THEN table
    ELSE SideTableAfterArgs(IF i \in NodeArgs(n.op, n.args)
                            THEN SideTableAfter(table, n.args[i]) ELSE table,
                            n, i + 1)

\* op.calc_length(*args) of the operation's definition
calc_length(op, args) ==
    CASE op \in CompareOps \cup {"And", "Or", "Not"} -> 0
      [] op = "Concat" -> args[1].length + args[2].length
      [] op = "Extract" -> args[1] - args[2] + 1
      [] op \in {"SignExt", "ZeroExt"} -> args[1] + args[2].length
      [] OTHER -> args[1].length

\* ast_args = (symbol_str, None, None, None, False, False, None)
SyntheticArgs(name) == <<name, -1, -1, -1, FALSE, FALSE, -1>>

\* _abstract_internal without its cache: the IR node of a native term
RECURSIVE AbstractTerm(_, _)
AbstractTerm(t, table) ==
    LET op_name == op_name_of(t) IN
    IF op_name = "None" THEN ErrorNode("ClaripyError")
    ELSE LET children == [i \in DOMAIN t.args |-> AbstractTerm(t.args[i], table)] IN
         IF \E i \in DOMAIN children : children[i].op = "ERROR"
         THEN children[CHOOSE i \in DOMAIN children : children[i].op = "ERROR"]
         ELSE CASE op_name = "True" -> IR("BoolV", <<TRUE>>, 0)
                [] op_name = "False" -> IR("BoolV", <<FALSE>>, 0)
                [] op_name = "BitVecVal" -> IR("BVV", <<t.value, t.sort.size>>, t.sort.size)
                [] op_name = "UNINTERPRETED" /\ Len(t.args) = 0 ->
                      IF t.sort.kind = "BV"
                      THEN IF t.name \in DOMAIN table
                           THEN Annotated(IR("BVS", table[t.name][1], t.sort.size),
                                          table[t.name][2])
                           ELSE IR("BVS", SyntheticArgs(t.name), t.sort.size)
                      ELSE IF t.sort.kind = "Bool"
                      THEN IR("BoolS", <<t.name>>, 0)
                      ELSE IF t.sort.kind = "FP"
                      THEN IR("FPS", <<t.name, FSortName(t.sort.size)>>, t.sort.size)
                      ELSE ErrorNode("BackendError")
                [] op_name = "UNINTERPRETED" /\ Len(t.args) > 0 ->
                      ErrorNode("UnboundLocalError")
                [] OTHER ->
                      LET args == CASE op_name = "Extract" -> <<t.params[1], t.params[2]>> \o children
                                    [] op_name \in {"SignExt", "ZeroExt"} -> <<t.params[1]>> \o children
                                    [] OTHER -> children
                          result_ty == op_type_map(t.decl)
                      IN IF Len(args) = 0 THEN ErrorNode("IndexError")
                         ELSE IF result_ty = "str" THEN ErrorNode("BackendError")
                         ELSE IF op_name = "If" THEN IR("If", args, args[2].length)
                         ELSE IF result_ty = "None" THEN ErrorNode("TypeError")
                         ELSE IR(op_name, args, calc_length(op_name, args))

\* same operation, same argument structure, same length
RECURSIVE StructEq(_, _)
StructEq(a, b) ==
    /\ a.op = b.op
    /\ a.length = b.length
    /\ Len(a.args) = Len(b.args)
    /\ \A i \in DOMAIN a.args :
          IF i \in NodeArgs(a.op, a.args)
          THEN StructEq(a.args[i], b.args[i])
          ELSE a.args[i] = b.args[i]

----------------------------------------------------------------------------
(* The nodes explored: leaves, one operation over leaves, and Boolean *)
(* structure over comparisons                                          *)

BVV(v, size) == IR("BVV", <<v, size>>, size)
\* BVS(name, min, max, stride, uninitialized, discrete_set, discrete_set_max_card)
BVS(name, size) == IR("BVS", <<name, 0, Pow2(size) - 1, 1, FALSE, FALSE, -1>>, size)

Leaves8 == {BVV(1, 8), BVS("x", 8)}
Leaves16 == {BVS("y", 16)}

BVNodes ==
    {IR(op, <<a, b>>, 8) : op \in FoldOps \cup BinaryOps, a \in Leaves8, b \in Leaves8}
    \cup {IR("__add__", <<a, BVV(1, 8), a>>, 8) : a \in Leaves8}
    \cup {IR("Concat", <<a, b>>, 16) : a \in Leaves8, b \in Leaves8}
    \cup {IR("Concat", <<a, a, a>>, 24) : a \in Leaves8}
    \cup {IR("Extract", <<hi, 0, a>>, hi + 1) : hi \in {3, 7}, a \in Leaves8 \cup Leaves16}
    \cup {IR(op, <<8, a>>, 16) : op \in {"SignExt", "ZeroExt"}, a \in Leaves8}
    \cup {IR("Reverse", <<a>>, a.length) : a \in Leaves8 \cup Leaves16}

CompareNodes == {IR(op, <<a, b>>, 0) : op \in CompareOps, a \in Leaves8, b \in Leaves8}

FPLeaves == {IR("FPS", <<"f", FSortName(64)>>, 64)}

BoolLeaves == {IR("BoolV", <<TRUE>>, 0), IR("BoolV", <<FALSE>>, 0), IR("BoolS", <<"b">>, 0)}

BoolNodes ==
    {IR("Not", <<c>>, 0) : c \in CompareNodes \cup BoolLeaves}
    \cup {IR(op, <<IR("BoolS", <<"b">>, 0), c>>, 0) : op \in {"And", "Or"}, c \in CompareNodes}
    \cup {IR("And", <<c, c, IR("BoolS", <<"b">>, 0)>>, 0) : c \in BoolLeaves}
    \cup {IR("If", <<IR("BoolS", <<"b">>, 0), a, b>>, 8) : a \in Leaves8, b \in Leaves8}
    \cup {IR("If", <<c, IR("BoolV", <<TRUE>>, 0), IR("BoolS", <<"b">>, 0)>>, 0) :
             c \in CompareNodes}

Nodes ==
    Leaves8 \cup Leaves16 \cup BVNodes \cup CompareNodes \cup BoolLeaves \cup BoolNodes
        \cup FPLeaves

\* a fresh thread's side-table, and no node handed in yet
InitTransVars(NN) ==
    /\ tr_node \in NN
    /\ tr_native = NoTerm
    /\ tr_back = NoNode
    /\ tr_pc = "node"
    /\ tr_same = TRUE
    /\ extra_bvs_data = <<>>

\* convert(n)
TransConvert ==
    /\ tr_pc = "node"
    /\ tr_native' = Convert(tr_node)
    /\ extra_bvs_data' = SideTableAfter(extra_bvs_data, tr_node)
    /\ tr_pc' = "lowered"
    /\ UNCHANGED <<tr_node, tr_back, tr_same>>
    /\ UNCHANGED nonTransVars

\* abstract(convert(n)) on the thread that lowered n
TransAbstract ==
    /\ tr_pc = "lowered"
    /\ tr_native.decl # "ERROR"
    /\ tr_back' = AbstractTerm(tr_native, extra_bvs_data)
    /\ tr_same' = TRUE
    /\ tr_pc' = "abstracted"
    /\ UNCHANGED <<tr_node, tr_native, extra_bvs_data>>
    /\ UNCHANGED nonTransVars

\* the same on a thread that never lowered n: its side-table is still empty
TransAbstractElsewhere ==
    /\ tr_pc = "lowered"
    /\ tr_native.decl # "ERROR"
    /\ tr_back' = AbstractTerm(tr_native, <<>>)
    /\ tr_same' = FALSE
    /\ tr_pc' = "abstracted"
    /\ UNCHANGED <<tr_node, tr_native, extra_bvs_data>>
    /\ UNCHANGED nonTransVars

NextTrans ==
    \/ TransConvert
    \/ TransAbstract
    \/ TransAbstractElsewhere

\* operation tags anywhere in a node
RECURSIVE OpsOf(_)
OpsOf(n) == {n.op} \cup UNION {OpsOf(n.args[i]) : i \in NodeArgs(n.op, n.args)}

\* some fold-lowered operation in n has more than two operands
RECURSIVE HasWideFold(_)
HasWideFold(n) ==
    \/ n.op \in FoldOps \cup {"Concat"} /\ Len(n.args) > 2
    \/ \E i \in NodeArgs(n.op, n.args) : HasWideFold(n.args[i])

RoundTripped == tr_pc = "abstracted" /\ tr_same

RECURSIVE SymbolNames(_)
SymbolNames(n) ==
    (IF n.op \in {"BVS", "BoolS", "FPS"} THEN {n.args[1]} ELSE {})
        \cup UNION {SymbolNames(n.args[i]) : i \in NodeArgs(n.op, n.args)}

Lowered == tr_pc = "lowered" /\ tr_native.decl # "ERROR"

\* C23: after convert(n) the symbol metadata side-table holds an entry under
\* the encoded name of every symbol of n, bitvector, Boolean or floating-point.
C23_EverySymbolRegistered ==
    Lowered => SymbolNames(tr_node) \subseteq DOMAIN extra_bvs_data

----------------------------------------------------------------------------
(* solver(): sessions built per call or pooled per thread *)

Threads == {"main", "worker"}
PoolConstraints == {"c1", "c2"}

\* z3.Solver(ctx=self._context), with ctrl_c switched off away from the main thread
\* Python's None where a limit is expected
None == -1

\* timeout and max_memory are the parameters set on the session, None when
\* none was set
NewSessionTrapping(t) ==
    [assertions |-> {}, ctrl_c |-> TRUE, owner |-> t,
     timeout |-> None, max_memory |-> None]

NewSession(t) ==
    [assertions |-> {}, ctrl_c |-> (t = "main"), owner |-> t,
     timeout |-> None, max_memory |-> None]

\* the timeout and max_memory arguments of solver(): None or a limit
Limits == {<<None, None>>, <<1000, None>>, <<None, 512>>}

\* if timeout is not None: s.set(...); if max_memory is not None: s.set(...)
SetLimits(s, timeout, max_memory) ==
    [s EXCEPT !.timeout = IF timeout # None THEN timeout ELSE @,
              !.max_memory = IF max_memory # None THEN max_memory ELSE @]

\* s.reset()
solver_reset_KeepAssertions(s) == s

\* the parameters set on the session stay as they are
solver_reset(s) == [s EXCEPT !.assertions = {}]

NoSolverCall ==
    [n |-> 0, thread |-> "main", id |-> 0, built |-> FALSE, dropped |-> {},
     timeout |-> None, max_memory |-> None]

InitPoolVars(R) ==
    /\ reuse_z3_solver \in R
    /\ tls_solver = [t \in Threads |-> 0]
    /\ sessions = <<>>
    /\ held = [t \in Threads |-> {}]
    /\ pooled = [t \in Threads |-> {}]
    /\ last_solver = NoSolverCall

\* solver(timeout, max_memory) called on thread t
Solver(t, timeout, max_memory) ==
    /\ last_solver.n < MaxSolverCalls
    /\   IF ~reuse_z3_solver \/ tls_solver[t] = 0
         THEN LET id == Len(sessions) + 1 IN
              /\ sessions' = Append(sessions, SetLimits(NewSession(t), timeout, max_memory))
              /\ IF reuse_z3_solver
                 THEN /\ tls_solver' = [tls_solver EXCEPT ![t] = id]
                      /\ pooled' = [pooled EXCEPT ![t] = @ \cup {id}]
                 ELSE UNCHANGED <<tls_solver, pooled>>
              /\ held' = [held EXCEPT ![t] = @ \cup {id}]
              /\ last_solver' = [n |-> last_solver.n + 1, thread |-> t, id |-> id,
                                 built |-> TRUE, dropped |-> {},
                                 timeout |-> timeout, max_memory |-> max_memory]
         ELSE LET id == tls_solver[t] IN
              /\ sessions' = [sessions EXCEPT
                                 ![id] = SetLimits(solver_reset(@), timeout, max_memory)]
              /\ held' = [held EXCEPT ![t] = @ \cup {id}]
              /\ last_solver' = [n |-> last_solver.n + 1, thread |-> t, id |-> id,
                                 built |-> FALSE, dropped |-> sessions[id].assertions,
                                 timeout |-> timeout, max_memory |-> max_memory]
              /\ UNCHANGED <<tls_solver, pooled>>
    /\ UNCHANGED reuse_z3_solver
    /\ UNCHANGED nonPoolVars

\* _add(s, c) by a thread on a session solver() gave it
PoolAdd(t, id, c) ==
    /\ id \in held[t]
    /\ c \notin sessions[id].assertions
    /\ sessions' = [sessions EXCEPT ![id].assertions = @ \cup {c}]
    /\ UNCHANGED <<reuse_z3_solver, tls_solver, held, pooled, last_solver>>
    /\ UNCHANGED nonPoolVars

NextPool ==
    \/ \E t \in Threads, l \in Limits : Solver(t, l[1], l[2])
    \/ \E t \in Threads, id \in DOMAIN sessions, c \in PoolConstraints : PoolAdd(t, id, c)

\* what one solver() call did, read off the step that made it
SolverCallStep ==
    last_solver'.n = last_solver.n + 1 =>
        LET t == last_solver'.thread
            id == last_solver'.id
        IN IF ~reuse_z3_solver \/ tls_solver[t] = 0
           THEN /\ id \notin DOMAIN sessions
                /\ sessions'[id].assertions = {}
                /\ \A j \in DOMAIN sessions : sessions'[j] = sessions[j]
                /\ tls_solver'[t] = (IF reuse_z3_solver THEN id ELSE 0)
           ELSE /\ id = tls_solver[t]
                /\ tls_solver'[t] = id
                /\ sessions'[id].assertions = {}
                /\ \A j \in DOMAIN sessions \ {id} : sessions'[j] = sessions[j]

\* C10: with reuse disabled every solver() call returns a newly built session
\* with an empty assertion set and leaves every earlier session as it was; with
\* reuse enabled the first call on a thread builds a session and stores it for
\* the thread, every later call on that thread returns the stored session reset
\* to an empty assertion set; a thread never has more than one pooled session.
C10_SolverPool ==
    /\ [](\A t \in Threads : Cardinality(pooled[t]) <= 1)
    /\ [](~reuse_z3_solver => \A t \in Threads : tls_solver[t] = 0)
    /\ [][SolverCallStep]_vars

C10_Witness ==
    /\ reuse_z3_solver
    /\ ~last_solver.built
    /\ last_solver.dropped # {}
    /\ sessions[last_solver.id].assertions = {}
    /\ \E t \in Threads : t # last_solver.thread /\ tls_solver[t] # 0

\* C26: the session solver(timeout, max_memory) returns has exactly the limits
\* given in that call, none where the argument is None, also when the session
\* is a reused one on which an earlier call set a limit.
C26_LimitsAsGiven ==
    last_solver.n > 0 =>
        /\ sessions[last_solver.id].timeout = last_solver.timeout
        /\ sessions[last_solver.id].max_memory = last_solver.max_memory

\* a session's trapping of keyboard interrupts stays as it was set when built
TrappingKept ==
    \A id \in DOMAIN sessions : sessions'[id].ctrl_c = sessions[id].ctrl_c

----------------------------------------------------------------------------
(* Native contexts, the registry and handle_sigint *)

\* what signal.getsignal(SIGINT) can return at import
Handlers == {"None", "SIG_DFL", "SIG_IGN", "default_int_handler", "callable"}

\* z3.Context() if not main_thread else z3.main_ctx()
ContextOfAlwaysMain(t) == "main_ctx"

ContextOf(t) == IF t = "main" THEN "main_ctx" ELSE "ctx_" \o t

\* module import on the main thread installs handle_sigint unless the handler
\* found is None or SIG_DFL; import on another thread installs nothing
InstallsHandler(on_main, h) == on_main /\ h \notin {"None", "SIG_DFL"}

InitSigVars(H, M) ==
    /\ old_handler \in H
    /\ \E on_main \in M : sig_installed = InstallsHandler(on_main, old_handler)
    /\ tls_context = [t \in Threads |-> "none"]
    /\ ctx_pc = [t \in Threads |-> "none"]
    /\ ALL_Z3_CONTEXTS = {}
    /\ sig_pc = "idle"
    /\ sig_entry = {}
    /\ sig_todo = {}
    /\ sig_interrupted = {}
    /\ sig_outcome = "none"
    /\ n_signals = 0

sigHandlerVars == <<sig_pc, sig_entry, sig_todo, sig_interrupted, sig_outcome, n_signals>>

\* _context, first use on thread t: self._tls.context = ...
ContextCreate(t) ==
    /\ ctx_pc[t] = "none"
    /\ tls_context' = [tls_context EXCEPT ![t] = ContextOf(t)]
    /\ ctx_pc' = [ctx_pc EXCEPT ![t] = "created"]
    /\ UNCHANGED <<old_handler, sig_installed, ALL_Z3_CONTEXTS, sigHandlerVars>>
    /\ UNCHANGED nonSigVars

\* _context, first use on thread t: ALL_Z3_CONTEXTS.add(self._tls.context)
ContextRegister(t) ==
    /\ ctx_pc[t] = "created"
    /\ ALL_Z3_CONTEXTS' = ALL_Z3_CONTEXTS \cup {tls_context[t]}
    /\ ctx_pc' = [ctx_pc EXCEPT ![t] = "ready"]
    /\ UNCHANGED <<old_handler, sig_installed, tls_context, sigHandlerVars>>
    /\ UNCHANGED nonSigVars

\* contexts = list(ALL_Z3_CONTEXTS), when the iteration over the set ends
RegistryList(registry) == registry

\* handle_sigint entered: return at once when the previous handler is SIG_IGN,
\* else start to iterate over the registry
SigEnter ==
    /\ sig_installed
    /\ sig_pc \in {"idle", "done"}
    /\ n_signals < MaxSignals
    /\ n_signals' = n_signals + 1
    /\ sig_entry' = ALL_Z3_CONTEXTS
    /\ sig_interrupted' = {}
    /\ IF old_handler = "SIG_IGN"
       THEN /\ sig_pc' = "done"
            /\ sig_todo' = {}
            /\ sig_outcome' = "returned"
       ELSE /\ sig_pc' = "listing"
            /\ sig_todo' = {}
            /\ sig_outcome' = "none"
    /\ UNCHANGED <<old_handler, sig_installed, tls_context, ctx_pc, ALL_Z3_CONTEXTS>>
    /\ UNCHANGED nonSigVars

\* list(ALL_Z3_CONTEXTS) ends.  The registry is a weakref.WeakSet shared by all
\* threads without a lock: when a thread has added its context since the
\* iteration began, the set's iterator raises RuntimeError (set changed size
\* during iteration) and the handler ends there.
SigListed ==
    /\ sig_pc = "listing"
    /\ IF ALL_Z3_CONTEXTS # sig_entry
       THEN /\ sig_pc' = "done"
            /\ sig_outcome' = "RuntimeError"
            /\ UNCHANGED sig_todo
       ELSE /\ sig_pc' = "broadcast"
            /\ sig_todo' = RegistryList(sig_entry)
            /\ UNCHANGED sig_outcome
    /\ UNCHANGED <<old_handler, sig_installed, tls_context, ctx_pc, ALL_Z3_CONTEXTS,
                   sig_entry, sig_interrupted, n_signals>>
    /\ UNCHANGED nonSigVars

\* for context in contexts: context.interrupt()
SigInterrupt(c) ==
    /\ sig_pc = "broadcast"
    /\ c \in sig_todo
    /\ sig_todo' = sig_todo \ {c}
    /\ sig_interrupted' = sig_interrupted \cup {c}
    /\ UNCHANGED <<old_handler, sig_installed, tls_context, ctx_pc, ALL_Z3_CONTEXTS,
                   sig_pc, sig_entry, sig_outcome, n_signals>>
    /\ UNCHANGED nonSigVars

\* the chaining after the loop
ChainOutcome(h) ==
    CASE h = "default_int_handler" -> "KeyboardInterrupt"
      [] h = "callable" -> "called_old_handler"
      [] OTHER -> "KeyboardInterrupt"

SigChain ==
    /\ sig_pc = "broadcast"
    /\ sig_todo = {}
    /\ sig_pc' = "done"
    /\ sig_outcome' = ChainOutcome(old_handler)
    /\ UNCHANGED <<old_handler, sig_installed, tls_context, ctx_pc, ALL_Z3_CONTEXTS,
                   sig_entry, sig_todo, sig_interrupted, n_signals>>
    /\ UNCHANGED nonSigVars

NextSig ==
    \/ \E t \in Threads : ContextCreate(t)
    \/ \E t \in Threads : ContextRegister(t)
    \/ SigEnter
    \/ SigListed
    \/ \E c \in sig_todo : SigInterrupt(c)
    \/ SigChain

SigHandlerEnded == sig_pc = "done"

\* C11: whenever the installed handler has run, whatever the previous
\* handler, it has interrupted every context that was in the registry and then
\* chained: KeyboardInterrupt for the default handler, a call of a callable
\* one, KeyboardInterrupt otherwise.
C11_BroadcastThenChain ==
    SigHandlerEnded =>
        /\ sig_entry \subseteq sig_interrupted
        /\ sig_outcome = ChainOutcome(old_handler)

\* a thread whose _context has returned holds a registered context
ReadyRegistered ==
    \A t \in Threads : ctx_pc[t] = "ready" => tls_context[t] \in ALL_Z3_CONTEXTS

\* C29: every native context a thread obtains is in the registry from the
\* moment _context first returns it, under any interleaving of threads creating
\* contexts, so a broadcast of the handler (one that does not return at once
\* for SIG_IGN) reaches every context registered when the handler was entered.
C29_BroadcastReachesReady ==
    /\ ReadyRegistered
    /\ (SigHandlerEnded /\ old_handler # "SIG_IGN") => sig_entry \subseteq sig_interrupted

----------------------------------------------------------------------------
(* Thread-local state: context, AST cache, side-table, pooled session *)

\* self._tls is a thread-local object: a thread sees the slot of its own name
TlsSlot(t) == t

TlsObjects == {k \o t : k \in {"ast_cache_", "extra_bvs_data_"}, t \in Threads}

InitTlsVars ==
    /\ tls_ast_cache = [t \in Threads |-> "none"]
    /\ tls_extra_bvs_data = [t \in Threads |-> "none"]
    /\ writers = [o \in TlsObjects |-> {}]

\* _ast_cache used by thread t: created on first use, then written
\* (_ast_cache[h] = ..., clear())
TlsAstCacheWrite(t) ==
    LET slot == TlsSlot(t)
        cache == IF tls_ast_cache[slot] = "none" THEN "ast_cache_" \o t
                 ELSE tls_ast_cache[slot]
    IN /\ t \notin writers[cache]
       /\ tls_ast_cache' = [tls_ast_cache EXCEPT ![slot] = cache]
       /\ writers' = [writers EXCEPT ![cache] = @ \cup {t}]
       /\ UNCHANGED tls_extra_bvs_data
       /\ UNCHANGED nonTlsVars

\* extra_bvs_data used by thread t: created on first use, then written by BVS
TlsExtraBvsDataWrite(t) ==
    LET slot == TlsSlot(t)
        table == IF tls_extra_bvs_data[slot] = "none" THEN "extra_bvs_data_" \o t
                 ELSE tls_extra_bvs_data[slot]
    IN /\ t \notin writers[table]
       /\ tls_extra_bvs_data' = [tls_extra_bvs_data EXCEPT ![slot] = table]
       /\ writers' = [writers EXCEPT ![table] = @ \cup {t}]
       /\ UNCHANGED tls_ast_cache
       /\ UNCHANGED nonTlsVars

NextThreads ==
    \/ \E t \in Threads : ContextCreate(t)
    \/ \E t \in Threads : ContextRegister(t)
    \/ \E t \in Threads : Solver(t, None, None)
    \/ \E t \in Threads : TlsAstCacheWrite(t)
    \/ \E t \in Threads : TlsExtraBvsDataWrite(t)

----------------------------------------------------------------------------
(* Two threads in _satisfiable on the same backend *)

InitRaceVars ==
    /\ shared_solve_count = 0
    /\ rc_pc = [t \in Threads |-> "idle"]
    /\ rc_loaded = [t \in Threads |-> 0]
    /\ rc_calls = [t \in Threads |-> 0]
    /\ rc_checks = 0

\* self.solve_count += 1, first half: read the attribute
RaceLoad(t) ==
    /\ rc_pc[t] = "idle"
    /\ rc_calls[t] < MaxRaceCalls
    /\ rc_loaded' = [rc_loaded EXCEPT ![t] = shared_solve_count]
    /\ rc_pc' = [rc_pc EXCEPT ![t] = "loaded"]
    /\ UNCHANGED <<shared_solve_count, rc_calls, rc_checks>>
    /\ UNCHANGED nonRaceVars

\* self.solve_count += 1, second half: store the sum
RaceStore(t) ==
    /\ rc_pc[t] = "loaded"
    /\ shared_solve_count' = rc_loaded[t] + 1
    /\ rc_pc' = [rc_pc EXCEPT ![t] = "stored"]
    /\ UNCHANGED <<rc_loaded, rc_calls, rc_checks>>
    /\ UNCHANGED nonRaceVars

\* the check and the return of _satisfiable
RaceCheck(t) ==
    /\ rc_pc[t] = "stored"
    /\ rc_checks' = rc_checks + 1
    /\ rc_calls' = [rc_calls EXCEPT ![t] = @ + 1]
    /\ rc_pc' = [rc_pc EXCEPT ![t] = "idle"]
    /\ UNCHANGED <<shared_solve_count, rc_loaded>>
    /\ UNCHANGED nonRaceVars

NextRace ==
    \/ \E t \in Threads : RaceLoad(t)
    \/ \E t \in Threads : RaceStore(t)
    \/ \E t \in Threads : RaceCheck(t)

\* C13: threads running satisfiable concurrently on one backend never lose an
\* update to engine state: once every call has returned, solve_count counts
\* every check that was made.
C13_NoLostUpdate ==
    (\A t \in Threads : rc_pc[t] = "idle") => shared_solve_count = rc_checks

----------------------------------------------------------------------------
(* Abstraction of terms that come from the engine *)

NativeSymbol(name, sort) == NT("Z3_OP_UNINTERPRETED", <<>>, <<>>, sort, name, 0)

NativeLeaves8 == {NativeSymbol("x", BVSort(8)), NT("Z3_OP_BNUM", <<>>, <<>>, BVSort(8), "", 1)}
NativeInts == {NativeSymbol("i", IntSort), NT("Z3_OP_ANUM", <<>>, <<>>, IntSort, "", 1)}

\* declaration kinds that op_map maps to None
UnmappedDecls == {"Z3_OP_BCOMP", "Z3_OP_BIT0", "Z3_OP_BV2INT", "Z3_OP_SELECT", "Z3_OP_STORE"}
\* declaration kinds that op_map maps and op_type_map leaves without a category
UncategorisedDecls ==
    {"Z3_OP_ADD", "Z3_OP_SUB", "Z3_OP_MUL", "Z3_OP_DIV", "Z3_OP_IDIV", "Z3_OP_MOD",
     "Z3_OP_REM", "Z3_OP_POWER", "Z3_OP_UMINUS", "Z3_OP_GE", "Z3_OP_GT", "Z3_OP_LE",
     "Z3_OP_LT"}

NativeTerms ==
    NativeLeaves8 \cup NativeInts
    \cup {NT(d, <<>>, <<a, b>>, BVSort(8), "", 0) :
             d \in UnmappedDecls, a \in NativeLeaves8, b \in NativeLeaves8}
    \cup {NT(d, <<>>, <<a, b>>, IntSort, "", 0) :
             d \in UncategorisedDecls, a \in NativeInts, b \in NativeInts}
    \cup {NT("Z3_OP_UNINTERPRETED", <<>>, <<a>>, BVSort(8), "f", 0) : a \in NativeLeaves8}
    \cup {NT("Z3_OP_UNINTERPRETED", <<>>, <<a, b>>, BoolSort, "p", 0) :
             a \in NativeLeaves8, b \in NativeLeaves8}
    \cup {App("Z3_OP_BADD", <<>>, <<a, NT(d, <<>>, <<a, a>>, BVSort(8), "", 0)>>) :
             a \in NativeLeaves8, d \in UnmappedDecls}

\* a term handed to abstract by the engine (a model value, a simplified
\* formula), no node having been lowered
InitFromEngine(TT) ==
    /\ tr_node = NoNode
    /\ tr_native \in TT
    /\ tr_back = NoNode
    /\ tr_pc = "lowered"
    /\ tr_same = TRUE
    /\ extra_bvs_data = <<>>

NextAbstract ==
    \/ TransAbstract
    \/ TransAbstractElsewhere

AbstractedFromEngine == tr_pc = "abstracted" /\ tr_node = NoNode

\* the term is not one of the literals and symbols read off before the tables
\* are consulted for a category
IsApplication(t) == op_map(t.decl) \notin {"True", "False", "BitVecVal"} /\ Len(t.args) > 0

\* C14: abstracting a term whose operator code has no mapped tag, or whose
\* mapped tag has no result category, fails with ClaripyError or BackendError
\* and with nothing else, uninterpreted terms with arguments included.
C14_UnknownOperatorIsClaripyError ==
    (AbstractedFromEngine
        /\ \/ op_map(tr_native.decl) = "None"
           \/ IsApplication(tr_native) /\ op_type_map(tr_native.decl) \in {"str", "None"})
    => /\ tr_back.op = "ERROR"
       /\ tr_back.args[1] \in {"ClaripyError", "BackendError"}

----------------------------------------------------------------------------
(* condom: exceptions of the native library on their way to the caller *)

\* the functions of the backend that carry the condom decorator
Decorated ==
    {"_convert", "_abstract", "_primitive_from_model", "_batch_eval", "_min", "_max", "simplify"}

\* for each operation, the frames from the operation down to a native call
CallChains ==
    {<<"_convert">>,
     <<"_abstract", "_abstract_internal">>,
     <<"add", "_add">>,
     <<"_satisfiable", "z3_solver_sat">>,
     <<"_satisfiable", "_generic_model">>,
     <<"_eval", "_batch_eval", "z3_solver_sat">>,
     <<"_batch_eval", "z3_solver_sat">>,
     <<"_batch_eval", "_generic_model">>,
     <<"_min", "_extrema", "z3_solver_sat">>,
     <<"_max", "_extrema", "z3_solver_sat">>,
     <<"simplify">>,
     <<"simplify", "_abstract", "_abstract_internal">>,
     <<"_is_true">>,
     <<"_is_false">>,
     <<"solver">>}

NativeOutcomes == {"ok", "Z3Exception"}

\* z3_condom: except z3.Z3Exception as ze: raise ClaripyZ3Error from ze
condom(exc) == IF exc = "Z3Exception" THEN "ClaripyZ3Error" ELSE exc

\* what leaves frame f when exc arrives in it
LeaveFrame(f, exc) == IF f \in Decorated THEN condom(exc) ELSE exc

InitWrapVars ==
    /\ wr_op = "none"
    /\ wr_native = "ok"
    /\ wr_frames = <<>>
    /\ wr_exc = "none"
    /\ wr_pc = "idle"
    /\ wr_calls = 0

\* an operation is called and the native call inside it returns or raises
WrapCall(chain, native) ==
    /\ wr_pc \in {"idle", "done"}
    /\ wr_calls < MaxWrapCalls
    /\ wr_calls' = wr_calls + 1
    /\ wr_op' = chain[1]
    /\ wr_native' = native
    /\ wr_frames' = chain
    /\ wr_exc' = IF native = "ok" THEN "none" ELSE native
    /\ wr_pc' = "unwinding"
    /\ UNCHANGED nonWrapVars

\* the innermost frame is left
WrapUnwind ==
    /\ wr_pc = "unwinding"
    /\ Len(wr_frames) > 0
    /\ wr_exc' = LeaveFrame(wr_frames[Len(wr_frames)], wr_exc)
    /\ wr_frames' = SubSeq(wr_frames, 1, Len(wr_frames) - 1)
    /\ UNCHANGED <<wr_op, wr_native, wr_pc, wr_calls>>
    /\ UNCHANGED nonWrapVars

\* the caller gets the result
WrapReturn ==
    /\ wr_pc = "unwinding"
    /\ wr_frames = <<>>
    /\ wr_pc' = "done"
    /\ UNCHANGED <<wr_op, wr_native, wr_frames, wr_exc, wr_calls>>
    /\ UNCHANGED nonWrapVars

NextWrap ==
    \/ \E chain \in CallChains, native \in NativeOutcomes : WrapCall(chain, native)
    \/ WrapUnwind
    \/ WrapReturn

\* C15: whichever operation is called, an exception of the native library
\* reaches the caller as ClaripyZ3Error and never as the native exception.
C15_NativeExceptionWrapped ==
    (wr_pc = "done" /\ wr_native = "Z3Exception") => wr_exc = "ClaripyZ3Error"

----------------------------------------------------------------------------
(* _extrema on two 32-bit symbols x, y with x + y == 10 *)

\* A number n < 2^34 is the pair <<n \div 2^16, n % 2^16>>, so that 32-bit
\* values and the sum lo + hi stay inside the checker's integers.
Half16 == Pow2(16)
W(n) == <<n \div Half16, n % Half16>>
WNorm(h, l) == <<h + (l \div Half16), l % Half16>>
WAdd(a, b) == WNorm(a[1] + b[1], a[2] + b[2])
WSub(a, b) ==
    IF a[2] >= b[2] THEN <<a[1] - b[1], a[2] - b[2]>>
    ELSE <<a[1] - b[1] - 1, a[2] + Half16 - b[2]>>
WLess(a, b) == a[1] < b[1] \/ (a[1] = b[1] /\ a[2] < b[2])
WLeq(a, b) == a = b \/ WLess(a, b)
\* (lo + hi) // 2
WHalve(a) == <<a[1] \div 2, (a[2] + (a[1] % 2) * Half16) \div 2>>
\* reduction modulo 2^32
WMod32(a) == <<a[1] % Half16, a[2]>>
\* 2 ** expr.size() - 1 for expr.size() = 32
WideDomainHi == <<Half16 - 1, Half16 - 1>>
WideDomainLo == W(0)

\* the y that x + y == 10 leaves for a given x: (2^32 + 10 - x) mod 2^32
WideY(x) == WMod32(WSub(WAdd(<<Half16, 0>>, W(10)), x))

\* x with y == WideY(x) satisfies the session's assertions
WideSatisfies(x) ==
    /\ WMod32(WAdd(x, WideY(x))) = W(10)
    /\ wd_positive => WLess(W(0), x)

\* the native check under the assumption UGE(x, a) and ULE(x, b): the values
\* of [a, b] that satisfy the session are all of [a, b] but 0, so one of a, b
\* and 1 does whenever any does
WideCheck(a, b) ==
    \E x \in {a, b, W(1)} : WLeq(a, x) /\ WLeq(x, b) /\ WideSatisfies(x)

\* if sat == is_max: lo = middle, else: hi = middle
WideNarrowAlwaysHi(sat, is_max, lo, middle, hi) == <<lo, middle>>

WideNarrow(sat, is_max, lo, middle, hi) ==
    IF sat = is_max THEN <<middle, hi>> ELSE <<lo, middle>>

InitWideVars ==
    /\ wd_positive \in BOOLEAN
    /\ wd_is_max \in BOOLEAN
    /\ wd_lo = WideDomainLo
    /\ wd_hi = WideDomainHi
    /\ wd_pc = "loop"
    /\ wd_checks = 0
    /\ wd_ret = W(0)

\* one iteration of while hi - lo > 1
WideIter ==
    /\ wd_pc = "loop"
    /\ WLess(W(1), WSub(wd_hi, wd_lo))
    /\ LET middle == WHalve(WAdd(wd_lo, wd_hi))
           sat == IF wd_is_max THEN WideCheck(middle, wd_hi) ELSE WideCheck(wd_lo, middle)
           nw == WideNarrow(sat, wd_is_max, wd_lo, middle, wd_hi)
       IN /\ wd_lo' = nw[1]
          /\ wd_hi' = nw[2]
    /\ wd_checks' = wd_checks + 1
    /\ UNCHANGED <<wd_positive, wd_is_max, wd_pc, wd_ret>>
    /\ UNCHANGED nonWideVars

\* the check of expr == (hi if is_max else lo) and the return
WideFinal ==
    /\ wd_pc = "loop"
    /\ ~WLess(W(1), WSub(wd_hi, wd_lo))
    /\ LET v == IF wd_is_max THEN wd_hi ELSE wd_lo
           sat == WideCheck(v, v)
       IN wd_ret' = (IF sat = wd_is_max THEN wd_hi ELSE wd_lo)
    /\ wd_checks' = wd_checks + 1
    /\ wd_pc' = "returned"
    /\ UNCHANGED <<wd_positive, wd_is_max, wd_lo, wd_hi>>
    /\ UNCHANGED nonWideVars

NextWide ==
    \/ WideIter
    \/ WideFinal

WideMaxReturned == wd_pc = "returned" /\ wd_is_max /\ wd_positive

\* C16 as stated: for 32-bit x, y with x + y == 10 and x > 0,
\* extrema(max, x, signed=False) returns 9.
C16_MaxIsNine == WideMaxReturned => wd_ret = W(9)

\* C16 as amended: it returns 2^32 - 1, which with y = 11 satisfies
\* x + y == 10 modulo 2^32 and x > 0.
C16_MaxIsAllOnes ==
    WideMaxReturned =>
        /\ wd_ret = WideDomainHi
        /\ WideSatisfies(wd_ret)
        /\ WideY(wd_ret) = W(11)

C16_Witness == WideMaxReturned /\ wd_ret = WideDomainHi /\ wd_checks = 33

----------------------------------------------------------------------------
(* Symbols lowered and abstracted on one thread *)

\* BVS nodes of the same names with different construction args and annotations
SymbolNodes ==
    {Annotated(IR("BVS", <<name, lo, Pow2(size) - 1, 1, FALSE, FALSE, -1>>, size), ann) :
        name \in {"x", "y"}, lo \in {0, 1}, size \in {8, 16}, ann \in {<<>>, <<"tainted">>}}

\* zero-argument uninterpreted bitvector terms the engine can hand back
SymbolTerms == {NativeSymbol(name, BVSort(size)) : name \in {"x", "y", "z"}, size \in {8, 16}}

\* convert(n) for a BVS node n
SymLower(n) ==
    /\ tr_node' = n
    /\ tr_native' = Convert(n)
    /\ extra_bvs_data' = SideTableAfter(extra_bvs_data, n)
    /\ tr_pc' = "lowered"
    /\ UNCHANGED <<tr_back, tr_same>>
    /\ UNCHANGED nonTransVars

\* _abstract_internal on a symbol term
SymAbstract(t) ==
    /\ tr_native' = t
    /\ tr_back' = AbstractTerm(t, extra_bvs_data)
    /\ tr_pc' = "abstracted"
    /\ UNCHANGED <<tr_node, tr_same, extra_bvs_data>>
    /\ UNCHANGED nonTransVars

NextSymbols ==
    \/ \E n \in SymbolNodes : SymLower(n)
    \/ \E t \in SymbolTerms : SymAbstract(t)

SymbolAbstracted == tr_pc = "abstracted" /\ tr_native.decl = "Z3_OP_UNINTERPRETED"

\* C17: a zero-argument uninterpreted bitvector term comes back as a BVS node
\* with the native symbol's name and the native sort's size; it carries the
\* args and annotations recorded under its name when there is an entry (those
\* of the latest lowering of that name), the synthetic tuple otherwise.
C17_SymbolMetadata ==
    SymbolAbstracted =>
        LET name == tr_native.name IN
        /\ tr_back.op = "BVS"
        /\ tr_back.args[1] = name
        /\ tr_back.length = tr_native.sort.size
        /\ IF name \in DOMAIN extra_bvs_data
           THEN /\ tr_back.args = extra_bvs_data[name][1]
                /\ tr_back.annotations = extra_bvs_data[name][2]
           ELSE /\ tr_back.args = SyntheticArgs(name)
                /\ tr_back.annotations = <<>>
        /\ (tr_node.op = "BVS" /\ tr_node.args[1] = name) =>
              /\ tr_back.args = tr_node.args
              /\ tr_back.annotations = tr_node.annotations

C17_Witness ==
    /\ SymbolAbstracted
    /\ tr_node.op = "BVS"
    /\ tr_node.args[1] = tr_native.name
    /\ tr_node.length # tr_native.sort.size
    /\ tr_back.annotations = <<"tainted">>
    /\ tr_back.args[2] = 1
    /\ tr_back.length = tr_native.sort.size

----------------------------------------------------------------------------
(* _abstract_to_primitive: a Concat of word literals read as one integer *)

\* operands of the Concat explored
MaxWords == 2

\* res | arg_int on Python integers
RECURSIVE BitOr(_, _)
BitOr(a, b) ==
    IF a = 0 THEN b
    ELSE IF b = 0 THEN a
    ELSE (IF a % 2 = 1 \/ b % 2 = 1 THEN 1 ELSE 0) + 2 * BitOr(a \div 2, b \div 2)

\* an operand of the Concat: its declaration kind, its sort's size, and the
\* numeral v it is (Z3_OP_BNUM) or negates (Z3_OP_BNEG)
Word(decl, size, v) == [decl |-> decl, size |-> size, v |-> v]

\* the operand is a numeral, once a negation is looked through
IsWordLiteral(w) == w.decl \in {"Z3_OP_BNUM", "Z3_OP_BNEG"}

\* arg_int: _abstract_bv_val(arg_ast), and (1 << arg_size) - arg_int if neg
WordInt(w) == IF w.decl = "Z3_OP_BNEG" THEN Pow2(w.size) - w.v ELSE w.v

\* res <<= arg_size; res |= arg_int, operand by operand
RECURSIVE ConcatToPrimitive(_, _, _)
ConcatToPrimitive(words, i, res) ==
    IF i > Len(words) THEN res
    ELSE ConcatToPrimitive(words, i + 1, BitOr(res * Pow2(words[i].size), WordInt(words[i])))

WordLiterals ==
    {Word(decl, size, v) : decl \in {"Z3_OP_BNUM", "Z3_OP_BNEG"}, size \in {1, 2}, v \in 0 .. 3}

DecodeWords ==
    {w \in WordLiterals : w.v < Pow2(w.size)}
        \cup {Word("Z3_OP_BADD", size, 0) : size \in {1, 2}}

InitDecodeVars(WW) ==
    /\ dec_words \in WW
    /\ dec_pc = "term"
    /\ dec_res = 0
    /\ dec_raised = "none"

IdleDecode == InitDecodeVars({<<>>})

\* _abstract_to_primitive(ctx, ast) for ast a Concat
AbstractToPrimitive ==
    /\ dec_pc = "term"
    /\ IF \E i \in DOMAIN dec_words : ~IsWordLiteral(dec_words[i])
       THEN /\ dec_raised' = "BackendError"
            /\ dec_pc' = "raised"
            /\ UNCHANGED dec_res
       ELSE /\ dec_res' = ConcatToPrimitive(dec_words, 1, 0)
            /\ dec_pc' = "decoded"
            /\ UNCHANGED dec_raised
    /\ UNCHANGED dec_words
    /\ UNCHANGED nonDecVars

NextDecode == AbstractToPrimitive

\* the bits a word literal stands for
WordBits(w) == IF w.decl = "Z3_OP_BNEG" THEN (Pow2(w.size) - w.v) % Pow2(w.size) ELSE w.v

\* the integer whose bits are the words in order, most significant first
RECURSIVE DirectValue(_, _)
DirectValue(words, n) ==
    IF n = 0 THEN 0
    ELSE DirectValue(words, n - 1) * Pow2(words[n].size) + WordBits(words[n])

RECURSIVE TotalSize(_, _)
TotalSize(words, n) == IF n = 0 THEN 0 ELSE TotalSize(words, n - 1) + words[n].size

\* C24: a Concat of word literals, each a numeral v of size s or the negation
\* of one, decodes to the integer whose bits are the words in order, a negated
\* word contributing (2^s - v) mod 2^s; for every v, 0 included, the result is
\* below 2^(sum of the sizes).
C24_ConcatBitForBit ==
    dec_pc = "decoded" =>
        /\ dec_res = DirectValue(dec_words, Len(dec_words))
        /\ dec_res < Pow2(TotalSize(dec_words, Len(dec_words)))

----------------------------------------------------------------------------
(* downsize() on one thread while others convert and abstract *)

\* operations explored in one behaviour
MaxTableOps == 4

\* the bitvector symbols the threads lower, and the hashes of the terms they abstract
DzSymbols ==
    {IR("BVS", <<name, lo, 255, 1, FALSE, FALSE, -1>>, 8) : name \in {"x", "y"}, lo \in {0, 1}}
DzHashes == {1, 2}

NoDzOp == [op |-> "none", thread |-> "main", n |-> 0]

InitDzVars ==
    /\ dz_object_cache = [t \in Threads |-> {}]
    /\ dz_ast_cache = [t \in Threads |-> {}]
    /\ dz_var_cache = [t \in Threads |-> {}]
    /\ dz_sym_cache = [t \in Threads |-> {}]
    /\ dz_extra_bvs_data = [t \in Threads |-> <<>>]
    /\ dz_last = NoDzOp

\* convert(n) on thread t for a BVS node n: BVS() records n in the thread's
\* side-table and the lowered node is cached
DzConvert(t, n) ==
    /\ dz_last.n < MaxTableOps
    /\ dz_extra_bvs_data' = [dz_extra_bvs_data EXCEPT ![TlsSlot(t)] = Record(@, n)]
    /\ dz_object_cache' = [dz_object_cache EXCEPT ![TlsSlot(t)] = @ \cup {n.args[1]}]
    /\ dz_last' = [op |-> "convert", thread |-> t, n |-> dz_last.n + 1]
    /\ UNCHANGED <<dz_ast_cache, dz_var_cache, dz_sym_cache>>
    /\ UNCHANGED nonDzVars

\* _abstract_internal on thread t: self._ast_cache[h] = (a, ast)
DzAbstract(t, h) ==
    /\ dz_last.n < MaxTableOps
    /\ dz_ast_cache' = [dz_ast_cache EXCEPT ![TlsSlot(t)] = @ \cup {h}]
    /\ dz_last' = [op |-> "abstract", thread |-> t, n |-> dz_last.n + 1]
    /\ UNCHANGED <<dz_object_cache, dz_var_cache, dz_sym_cache, dz_extra_bvs_data>>
    /\ UNCHANGED nonDzVars

\* Backend.downsize(self): the thread's cache of lowered nodes is emptied
BackendDownsize(cache) == {}

\* what downsize() does to the side-table: nothing
DownsizeDropsSideTable(table) == <<>>

DownsizeSideTable(table) == table

\* downsize() on thread t
DzDownsize(t) ==
    /\ dz_last.n < MaxTableOps
    /\ dz_object_cache' = [dz_object_cache EXCEPT ![TlsSlot(t)] = BackendDownsize(@)]
    /\ dz_ast_cache' = [dz_ast_cache EXCEPT ![TlsSlot(t)] = {}]
    /\ dz_var_cache' = [dz_var_cache EXCEPT ![TlsSlot(t)] = {}]
    /\ dz_sym_cache' = [dz_sym_cache EXCEPT ![TlsSlot(t)] = {}]
    /\ dz_extra_bvs_data' = [dz_extra_bvs_data EXCEPT ![TlsSlot(t)] = DownsizeSideTable(@)]
    /\ dz_last' = [op |-> "downsize", thread |-> t, n |-> dz_last.n + 1]
    /\ UNCHANGED nonDzVars

NextDownsize ==
    \/ \E t \in Threads, n \in DzSymbols : DzConvert(t, n)
    \/ \E t \in Threads, h \in DzHashes : DzAbstract(t, h)
    \/ \E t \in Threads : DzDownsize(t)

\* a downsize() leaves the caches of every other thread and every side-table
DownsizeFrame ==
    (dz_last'.n = dz_last.n + 1 /\ dz_last'.op = "downsize") =>
        /\ \A u \in Threads \ {dz_last'.thread} :
              /\ dz_object_cache'[u] = dz_object_cache[u]
              /\ dz_ast_cache'[u] = dz_ast_cache[u]
              /\ dz_var_cache'[u] = dz_var_cache[u]
              /\ dz_sym_cache'[u] = dz_sym_cache[u]
        /\ dz_extra_bvs_data' = dz_extra_bvs_data
        /\ dz_ast_cache'[dz_last'.thread] = {}

\* side-table entries are kept by every step and change only when a
\* bitvector symbol is lowered
SideTableGrowsOnly ==
    /\ \A u \in Threads : DOMAIN dz_extra_bvs_data[u] \subseteq DOMAIN dz_extra_bvs_data'[u]
    /\ dz_extra_bvs_data' # dz_extra_bvs_data => dz_last'.op = "convert"

\* C27: downsize() on one thread changes only that thread's AST, variable and
\* symbol caches, leaves every other thread's caches and the symbol metadata
\* side-table unchanged; side-table entries are only added or overwritten by
\* lowering a bitvector symbol and never removed.
C27_DownsizeFrame == [][DownsizeFrame /\ SideTableGrowsOnly]_vars

C27_Witness ==
    /\ dz_last.op = "downsize"
    /\ dz_last.thread = "worker"
    /\ dz_ast_cache["worker"] = {}
    /\ dz_ast_cache["main"] # {}
    /\ "x" \in DOMAIN dz_extra_bvs_data["worker"]
    /\ "x" \in DOMAIN dz_extra_bvs_data["main"]

----------------------------------------------------------------------------
(* Specifications *)

IdleSession == {CHOOSE S \in Sessions : S.w = 8}
IdleNode == {BVV(1, 8)}
IdlePool == InitPoolVars({FALSE})
IdleSig == InitSigVars({"default_int_handler"}, {TRUE})
IdleWide == InitWideVars /\ wd_positive /\ wd_is_max

InitSolve == InitSolveVars(Sessions) /\ InitCacheVars /\ InitTransVars(IdleNode) /\ IdlePool /\ IdleSig /\ InitTlsVars /\ InitRaceVars /\ InitWrapVars /\ IdleWide /\ IdleDecode /\ InitDzVars
SpecSolve == InitSolve /\ [][NextSolve]_vars

\* sessions on which only _min and _max are called; a call that was entered
\* runs on: its loop and its final check are not suspended for ever
NextExtrema ==
    \/ CallExtrema
    \/ ExtremaIter
    \/ ExtremaFinal

\* one session of each width
ExtremaSessions == {s \in Sessions : s.w # 2 \/ Cardinality(s.base) = 1}

InitExtrema == InitSolveVars(ExtremaSessions) /\ InitCacheVars /\ InitTransVars(IdleNode) /\ IdlePool /\ IdleSig /\ InitTlsVars /\ InitRaceVars /\ InitWrapVars /\ IdleWide /\ IdleDecode /\ InitDzVars

SpecExtrema ==
    /\ InitExtrema
    /\ [][NextExtrema]_vars
    /\ WF_vars(ExtremaIter)
    /\ WF_vars(ExtremaFinal)

InitCache == InitSolveVars(IdleSession) /\ InitCacheVars /\ InitTransVars(IdleNode) /\ IdlePool /\ IdleSig /\ InitTlsVars /\ InitRaceVars /\ InitWrapVars /\ IdleWide /\ IdleDecode /\ InitDzVars
SpecCache == InitCache /\ [][NextCache]_vars

InitTrans == InitSolveVars(IdleSession) /\ InitCacheVars /\ InitTransVars(Nodes) /\ IdlePool /\ IdleSig /\ InitTlsVars /\ InitRaceVars /\ InitWrapVars /\ IdleWide /\ IdleDecode /\ InitDzVars
SpecTrans == InitTrans /\ [][NextTrans]_vars

InitPool ==
    /\ InitSolveVars(IdleSession) /\ InitCacheVars /\ InitTransVars(IdleNode)
    /\ InitPoolVars(BOOLEAN) /\ IdleSig /\ InitTlsVars /\ InitRaceVars /\ InitWrapVars /\ IdleWide /\ IdleDecode /\ InitDzVars
SpecPool == InitPool /\ [][NextPool]_vars

InitSig ==
    /\ InitSolveVars(IdleSession) /\ InitCacheVars /\ InitTransVars(IdleNode)
    /\ IdlePool /\ InitSigVars(Handlers, BOOLEAN) /\ InitTlsVars /\ InitRaceVars /\ InitWrapVars /\ IdleWide /\ IdleDecode /\ InitDzVars
SpecSig == InitSig /\ [][NextSig]_vars

InitThreads ==
    /\ InitSolveVars(IdleSession) /\ InitCacheVars /\ InitTransVars(IdleNode)
    /\ InitPoolVars(BOOLEAN) /\ IdleSig /\ InitTlsVars /\ InitRaceVars /\ InitWrapVars /\ IdleWide /\ IdleDecode /\ InitDzVars
SpecThreads == InitThreads /\ [][NextThreads]_vars

InitRace ==
    /\ InitSolveVars(IdleSession) /\ InitCacheVars /\ InitTransVars(IdleNode)
    /\ IdlePool /\ IdleSig /\ InitTlsVars /\ InitRaceVars /\ InitWrapVars /\ IdleWide /\ IdleDecode /\ InitDzVars
SpecRace == InitRace /\ [][NextRace]_vars

InitAbstract ==
    /\ InitSolveVars(IdleSession) /\ InitCacheVars /\ InitFromEngine(NativeTerms)
    /\ IdlePool /\ IdleSig /\ InitTlsVars /\ InitRaceVars /\ InitWrapVars /\ IdleWide /\ IdleDecode /\ InitDzVars
SpecAbstract == InitAbstract /\ [][NextAbstract]_vars

InitWrap ==
    /\ InitSolveVars(IdleSession) /\ InitCacheVars /\ InitTransVars(IdleNode)
    /\ IdlePool /\ IdleSig /\ InitTlsVars /\ InitRaceVars /\ InitWrapVars /\ IdleWide /\ IdleDecode /\ InitDzVars
SpecWrap == InitWrap /\ [][NextWrap]_vars

InitWide ==
    /\ InitSolveVars(IdleSession) /\ InitCacheVars /\ InitTransVars(IdleNode)
    /\ IdlePool /\ IdleSig /\ InitTlsVars /\ InitRaceVars /\ InitWrapVars /\ InitWideVars /\ IdleDecode /\ InitDzVars
SpecWide == InitWide /\ [][NextWide]_vars

InitSymbols ==
    /\ InitSolveVars(IdleSession) /\ InitCacheVars /\ InitTransVars({NoNode})
    /\ IdlePool /\ IdleSig /\ InitTlsVars /\ InitRaceVars /\ InitWrapVars /\ IdleWide /\ IdleDecode /\ InitDzVars
SpecSymbols == InitSymbols /\ [][NextSymbols]_vars

InitDecode == InitSolveVars(IdleSession) /\ InitCacheVars /\ InitTransVars(IdleNode) /\ IdlePool /\ IdleSig /\ InitTlsVars /\ InitRaceVars /\ InitWrapVars /\ IdleWide /\ InitDecodeVars(UNION {[1 .. k -> DecodeWords] : k \in 1 .. MaxWords}) /\ InitDzVars
SpecDecode == InitDecode /\ [][NextDecode]_vars

InitDownsize == InitSolveVars(IdleSession) /\ InitCacheVars /\ InitTransVars(IdleNode) /\ IdlePool /\ IdleSig /\ InitTlsVars /\ InitRaceVars /\ InitWrapVars /\ IdleWide /\ IdleDecode /\ InitDzVars
SpecDownsize == InitDownsize /\ [][NextDownsize]_vars

====
